---------------------------- MODULE Spec2Model ----------------------------
(***************************************************************************)
(* Fractured Key (src/fractured_gui.py): the share envelope codec, the     *)
(* encrypt and decrypt pipelines of FracturedKeyApp and the handlers that  *)
(* start and finish them.                                                  *)
(*                                                                         *)
(* Bytes objects are sequences of integers 0..255; Python strings are      *)
(* sequences of character codes.  The modules crypto, sss and              *)
(* steganography are not part of src/ and are modelled from their          *)
(* capability contracts (spec sections 1, 4.2 and 6).                      *)
(***************************************************************************)
EXTENDS Integers, Sequences, FiniteSets, TLC

(***************************************************************************)
(* Bounds of the model.                                                    *)
(***************************************************************************)
\* edits made to an encoded envelope before it is decoded (CodecSpec)
MaxEdits == 2

\* encrypt operations started in one run of the application
MaxEncrypts == 1

\* decrypt operations started in one run of the application
MaxDecrypts == 1

\* images the user keeps in the decryption list
MaxSelected == 2

\* images in the decryption list in the specification of the key recovery
MaxPicked == 3

\* presses of each start button in the specification of concurrent operations
MaxOps == 2

\* stego images altered from outside the application (TamperSpec)
MaxTampers == 1

\* the leading bytes of an envelope that the codec harness edits (CodecSpec)
EditWindow == 20

(***************************************************************************)
(* Byte helpers (Python bytes / int primitives).                           *)
(***************************************************************************)
RECURSIVE Sum(_)
Sum(s) == IF s = <<>> THEN 0 ELSE Head(s) + Sum(Tail(s))

\* b[lo:hi] of Python, 0-based, hi exclusive, clamped to the length of b
Slice(b, lo, hi) ==
    LET h == IF hi > Len(b) THEN Len(b) ELSE hi
    IN  IF lo >= h THEN <<>> ELSE SubSeq(b, lo + 1, h)

\* b[lo:]
SliceFrom(b, lo) == Slice(b, lo, Len(b))

\* n.to_bytes(4, 'big'), defined for 0 <= n < 2^32
ToBytes4(n) ==
    << (n \div 16777216) % 256, (n \div 65536) % 256, (n \div 256) % 256, n % 256 >>

\* int.from_bytes(b, 'big') of a 4-byte field.  TLC's integers have 32 bits: a
\* value of 2^24 or more is represented by HUGE = 2^24, which is longer than every
\* buffer of the model, so that every comparison with a length is decided alike.
HUGE == 16777216

RECURSIVE FromBytes(_)
FromBytes(b) ==
    IF b = <<>> THEN 0
    ELSE LET hi == FromBytes(SubSeq(b, 1, Len(b) - 1))
         IN  IF hi >= 65536 THEN HUGE ELSE hi * 256 + b[Len(b)]

\* a function over 1..n as a tuple
Tuple(f) == SubSeq(f, 1, Len(f))

Repeat(v, n) == Tuple([k \in 1..n |-> v])

(***************************************************************************)
(* The share envelope codec.                                               *)
(***************************************************************************)
\* b"FKSS01"
SHARE_MAGIC == << 70, 75, 83, 83, 48, 49 >>

SHARE_VERSION == 1

SHARE_MAGIC_LEN == Len(SHARE_MAGIC)

min_header == SHARE_MAGIC_LEN + 1 + 1 + 1 + 1 + 4 + 4

\* FracturedKeyApp._wrap_share_payload
WrapMut_TruncatedIndex(share_bytes, index, total, threshold, packaged_cipher) ==
    SHARE_MAGIC
        \o << SHARE_VERSION % 256, index % 128, total % 256, threshold % 256 >>
        \o ToBytes4(Len(share_bytes))
        \o ToBytes4(Len(packaged_cipher))
        \o share_bytes \o packaged_cipher

WrapMut_SwappedCounts(share_bytes, index, total, threshold, packaged_cipher) ==
    SHARE_MAGIC
        \o << SHARE_VERSION % 256, index % 256, threshold % 256, total % 256 >>
        \o ToBytes4(Len(share_bytes))
        \o ToBytes4(Len(packaged_cipher))
        \o share_bytes \o packaged_cipher

_wrap_share_payload(share_bytes, index, total, threshold, packaged_cipher) ==
    SHARE_MAGIC
        \o << SHARE_VERSION % 256, index % 256, total % 256, threshold % 256 >>
        \o ToBytes4(Len(share_bytes))
        \o ToBytes4(Len(packaged_cipher))
        \o share_bytes \o packaged_cipher

\* the ValueError messages of _parse_share_payload
TooShort == "Share payload too short"
MagicMismatch == "Share magic mismatch"
SizeOverflow == "Declared sizes exceed payload size"

ParseError(msg) ==
    [ err |-> msg, version |-> 0, index |-> 0, total |-> 0, threshold |-> 0,
      share_len |-> 0, packaged_cipher_len |-> 0,
      share_bytes |-> <<>>, packaged_cipher |-> <<>> ]

\* the condition of line 2388
ShortMut_OffByOne(payload) == Len(payload) < min_header - 1

PayloadTooShort(payload) == Len(payload) < min_header

\* the condition of line 2390
MagicMut_PrefixOnly(payload) == Slice(payload, 0, 4) # Slice(SHARE_MAGIC, 0, 4)

MagicDiffers(payload) == Slice(payload, 0, SHARE_MAGIC_LEN) # SHARE_MAGIC

\* the condition of line 2401
SizesMut_ShareOnly(pos, share_len, packaged_cipher_len, payload) ==
    pos + share_len > Len(payload)

SizesExceed(pos, share_len, packaged_cipher_len, payload) ==
    pos + share_len + packaged_cipher_len > Len(payload)

\* FracturedKeyApp._parse_share_payload; err = "" is the normal return
_parse_share_payload(payload) ==
    IF PayloadTooShort(payload) THEN ParseError(TooShort)
    ELSE IF MagicDiffers(payload) THEN ParseError(MagicMismatch)
    ELSE
      LET pos0 == SHARE_MAGIC_LEN
          version == payload[pos0 + 1]
          index == payload[pos0 + 2]
          total == payload[pos0 + 3]
          threshold == payload[pos0 + 4]
          share_len == FromBytes(Slice(payload, pos0 + 4, pos0 + 8))
          packaged_cipher_len == FromBytes(Slice(payload, pos0 + 8, pos0 + 12))
          pos == pos0 + 12
      IN  IF SizesExceed(pos, share_len, packaged_cipher_len, payload)
          THEN ParseError(SizeOverflow)
          ELSE [ err |-> "", version |-> version, index |-> index, total |-> total,
                 threshold |-> threshold, share_len |-> share_len,
                 packaged_cipher_len |-> packaged_cipher_len,
                 share_bytes |-> Slice(payload, pos, pos + share_len),
                 packaged_cipher |->
                     Slice(payload, pos + share_len,
                           pos + share_len + packaged_cipher_len) ]


(***************************************************************************)
(* cryptography's AESGCM, as a keyed pad with a 16-byte tag over the key,   *)
(* the nonce and the ciphertext: decrypt returns the plaintext exactly     *)
(* when the tag verifies and raises InvalidTag otherwise.                  *)
(***************************************************************************)
TAG_LEN == 16

InvalidTag == "InvalidTag"

RECURSIVE WeightedSum(_, _)
WeightedSum(s, w) == IF s = <<>> THEN 0 ELSE w * Head(s) + WeightedSum(Tail(s), w + 1)

KeyDigest(key) == WeightedSum(key, 1) % 256

Pad(key, nonce) == (KeyDigest(key) + Sum(nonce)) % 256

AeadTag(key, nonce, ct) ==
    Repeat((3 * KeyDigest(key) + 5 * Sum(nonce) + Sum(ct) + Len(ct) + 1) % 256, TAG_LEN)

\* AESGCM(key).encrypt(nonce, data, None)
AEAD_Encrypt(key, nonce, data) ==
    LET pad == Pad(key, nonce)
        ct == Tuple([k \in 1..Len(data) |-> (data[k] + pad) % 256])
    IN  ct \o AeadTag(key, nonce, ct)

\* AESGCM(key).decrypt(nonce, data, None): [exc, data]
AEAD_Decrypt(key, nonce, data) ==
    IF ~(Len(key) \in {16, 24, 32}) THEN [exc |-> "ValueError: invalid key size", data |-> <<>>]
    ELSE IF Len(nonce) < 8 THEN [exc |-> "ValueError: invalid nonce size", data |-> <<>>]
    ELSE IF Len(data) < TAG_LEN THEN [exc |-> InvalidTag, data |-> <<>>]
    ELSE
      LET ct == Slice(data, 0, Len(data) - TAG_LEN)
          tag == SliceFrom(data, Len(data) - TAG_LEN)
          pad == Pad(key, nonce)
      IN  IF tag # AeadTag(key, nonce, ct) THEN [exc |-> InvalidTag, data |-> <<>>]
          ELSE [exc |-> "",
                data |-> Tuple([k \in 1..Len(ct) |-> (ct[k] + 256 - pad) % 256])]

(***************************************************************************)
(* The values os.urandom and the collaborators' own randomness return in   *)
(* one encryption session, indexed by a draw d.  Draw 1 yields a key with  *)
(* a leading zero byte.                                                    *)
(***************************************************************************)
K2Of(d) ==
    Tuple([k \in 1..16 |-> IF k = 1 THEN (IF d = 1 THEN 0 ELSE 40 + d)
                                   ELSE (7 * k + 13 * d) % 256])

Nonce2Of(d) == Repeat((90 + d) % 256, 12)

SaltOf(d) == Repeat((20 + 3 * d) % 256, 16)

NonceOf(d) == Repeat((60 + 5 * d) % 256, 12)

CoefOf(d) == 200 + d

(***************************************************************************)
(* crypto.encrypt_password_aes_gcm / decrypt_password_aes_gcm (the          *)
(* PasswordCipher capability): a key derived from the master password and  *)
(* the salt, then the AEAD above.                                          *)
(***************************************************************************)
DeriveKey(master_password, salt) ==
    LET m == (Sum(master_password) + Len(master_password)) % 256
    IN  Tuple([k \in 1..16 |-> IF k = 1 THEN m ELSE salt[k]])

encrypt_password_aes_gcm(password, master_password, d) ==
    [ salt |-> SaltOf(d), nonce |-> NonceOf(d),
      ciphertext_with_tag |->
          AEAD_Encrypt(DeriveKey(master_password, SaltOf(d)), NonceOf(d), password) ]

\* [exc, data]: data is the plaintext password
decrypt_password_aes_gcm(salt, nonce, ciphertext_with_tag, master_password) ==
    IF Len(salt) < 16 THEN [exc |-> "ValueError: invalid salt", data |-> <<>>]
    ELSE AEAD_Decrypt(DeriveKey(master_password, salt), nonce, ciphertext_with_tag)

(***************************************************************************)
(* sss.split_bytes_into_shares / recover_bytes_from_shares (the             *)
(* SecretSharer capability): Shamir sharing of every byte over GF(257)     *)
(* with a polynomial of degree k-1; a share is its x followed by the       *)
(* 2-byte y of every secret byte.  The recovered secret is returned as the *)
(* integer it encodes, that is without its leading zero bytes.             *)
(***************************************************************************)
FIELD_P == 257

ModInv(a) == CHOOSE v \in 1..(FIELD_P - 1) : (v * (a % FIELD_P)) % FIELD_P = 1

RECURSIVE PolyAt(_, _, _, _)
\* s + c*x + c*x^2 + ... (degree k-1) mod 257
PolyAt(s, c, x, k) == IF k <= 1 THEN s % FIELD_P ELSE (s + x * PolyAt(c, c, x, k - 1)) % FIELD_P

RECURSIVE Flatten(_)
Flatten(ss) == IF ss = <<>> THEN <<>> ELSE Head(ss) \o Flatten(Tail(ss))

split_bytes_into_shares(secret, n, k, d) ==
    Tuple([ x \in 1..n |->
        <<x>> \o Flatten(Tuple([ j \in 1..Len(secret) |->
                   LET y == PolyAt(secret[j], (CoefOf(d) + j) % FIELD_P, x, k)
                   IN  << y \div 256, y % 256 >> ])) ])

RECURSIVE StripLeadingZeros(_)
StripLeadingZeros(b) ==
    IF b # <<>> /\ Head(b) = 0 THEN StripLeadingZeros(Tail(b)) ELSE b

ShareX(sh) == sh[1]

ShareY(sh, j) == sh[2 * j] * 256 + sh[2 * j + 1]

RECURSIVE LagrangeWeight(_, _, _)
\* product over m # i of x_m / (x_m - x_i), mod 257
LagrangeWeight(xs, i, m) ==
    IF m > Len(xs) THEN 1
    ELSE IF m = i THEN LagrangeWeight(xs, i, m + 1)
    ELSE (xs[m] * ModInv(xs[m] - xs[i] + FIELD_P) * LagrangeWeight(xs, i, m + 1)) % FIELD_P

RECURSIVE LagrangeAt0(_, _, _, _)
LagrangeAt0(shares, xs, j, i) ==
    IF i > Len(shares) THEN 0
    ELSE (ShareY(shares[i], j) * LagrangeWeight(xs, i, 1) + LagrangeAt0(shares, xs, j, i + 1))
             % FIELD_P

\* [exc, data]
recover_bytes_from_shares(shares) ==
    LET xs == Tuple([i \in 1..Len(shares) |->
                       IF shares[i] = <<>> THEN 0 ELSE ShareX(shares[i])])
        wellformed ==
            /\ Len(shares) >= 1
            /\ \A i \in 1..Len(shares) :
                   /\ Len(shares[i]) % 2 = 1
                   /\ Len(shares[i]) = Len(shares[1])
                   /\ xs[i] % FIELD_P # 0
                   /\ \A j \in 1..((Len(shares[i]) - 1) \div 2) : ShareY(shares[i], j) < FIELD_P
            /\ \A i, m \in 1..Len(shares) : i # m => xs[i] # xs[m]
    IN  IF ~wellformed THEN [exc |-> "ValueError: invalid shares", data |-> <<>>]
        ELSE
          LET n == (Len(shares[1]) - 1) \div 2
              secret == Tuple([j \in 1..n |-> LagrangeAt0(shares, xs, j, 1)])
          IN  IF \E j \in 1..n : secret[j] > 255
              THEN [exc |-> "ValueError: invalid shares", data |-> <<>>]
              ELSE [exc |-> "", data |-> StripLeadingZeros(secret)]


(***************************************************************************)
(* The file system and steganography.embed_data_into_image /               *)
(* extract_data_from_image (the Carrier capability): a lossless round trip *)
(* of the payload through the stego image that embed writes.               *)
(*                                                                         *)
(* A path is <<base, i>>.  Base 0 holds the stego images of an earlier     *)
(* session of the application, base n >= 1 the ones the user saves in the  *)
(* n-th encryption of this run, CarrierBase the ones named by default.     *)
(***************************************************************************)
NoPayload == << -1 >>

NoPath == <<>>

CarrierBase == 100

GoodCarrier == << CarrierBase, 0 >>

\* an image too small to hold an envelope
TinyCarrier == << 200, 0 >>

n_shares == 3

k_threshold == 2

\* the last session a run can reach
LastSession == IF MaxOps > MaxEncrypts THEN MaxOps ELSE MaxEncrypts

StegoPaths == ((0..LastSession) \cup {CarrierBase}) \X (1..n_shares)

AllPaths == StegoPaths \cup {GoodCarrier, TinyCarrier}

\* embed_data_into_image(carrier_path, payload, output_path=...): [exc, disk]
embed_data_into_image(files, carrier_path, payload, output_path) ==
    IF carrier_path = TinyCarrier
    THEN [exc |-> "ValueError: payload too large for carrier", files |-> files]
    ELSE [exc |-> "", files |-> [files EXCEPT ![output_path] = payload]]

\* extract_data_from_image(path): [exc, data]
extract_data_from_image(files, path) ==
    IF files[path] = NoPayload
    THEN [exc |-> "ValueError: no embedded payload", data |-> <<>>]
    ELSE [exc |-> "", data |-> files[path]]

(***************************************************************************)
(* What the user types.                                                    *)
(***************************************************************************)
\* "h2" and " x" (a password that starts with a space)
PasswordInputs == { << 104, 50 >>, << 32, 120 >> }

\* "M" and "W"
MasterInputs == { << 77 >>, << 87 >> }

\* the draws of the sessions of this run
Draws == { 1 }

\* the earlier session whose stego images are on disk at start: "p0", "M", draw 0
PriorSession == 0

PriorPassword == << 112, 48 >>

PriorMaster == << 77 >>

PriorDraw == 0

\* a still older session, of which one stego image is left under its default
\* name (TamperSpec): "q", "M", draw 2
OlderSession == -1

OlderPassword == << 113 >>

OlderMaster == << 77 >>

OlderDraw == 2

NoSession == -2

WHITESPACE == { 9, 10, 11, 12, 13, 28, 29, 30, 31, 32 }

RECURSIVE LStrip(_)
LStrip(s) == IF s # <<>> /\ Head(s) \in WHITESPACE THEN LStrip(Tail(s)) ELSE s

RECURSIVE RStrip(_)
RStrip(s) ==
    IF s # <<>> /\ s[Len(s)] \in WHITESPACE THEN RStrip(SubSeq(s, 1, Len(s) - 1)) ELSE s

\* str.strip()
Strip(s) == RStrip(LStrip(s))

(***************************************************************************)
(* State.                                                                  *)
(***************************************************************************)
VARIABLES
    \* encrypt tab
    encrypt_password_entry, encrypt_master_entry, use_shares_var,
    encrypt_btn, encrypt_progress, encrypt_output,
    \* decrypt tab
    selected_images, image_listbox, decrypt_master_entry,
    decrypt_btn, decrypt_progress, decrypt_output,
    \* manual decrypt tab
    manual_file_entry, manual_master_entry, manual_output, man,
    \* status bar, the last messagebox.showerror, Tk's queue of after() callbacks
    status, messagebox, after_queue,
    \* the worker threads: position and locals
    enc, dec,
    \* files: stego images and encrypted_output.bin
    disk, bin_file,
    \* history: the session that wrote each image, each session's inputs,
    \* the images altered from outside, the operations started
    origin, sessions, tampered, n_encrypts, n_decrypts,
    \* the codec harness: a buffer, the fields it was encoded from, its decoding
    buf, fields, decoded, edits

encVars == << encrypt_password_entry, encrypt_master_entry, use_shares_var,
              encrypt_btn, encrypt_progress, encrypt_output >>

decVars == << selected_images, image_listbox, decrypt_master_entry,
              decrypt_btn, decrypt_progress, decrypt_output >>

manVars == << manual_file_entry, manual_master_entry, manual_output, man >>

codecVars == << buf, fields, decoded, edits >>

histVars == << origin, sessions, tampered, n_encrypts, n_decrypts >>

vars == << encVars, decVars, manVars, status, messagebox, after_queue, enc, dec,
           disk, bin_file, histVars, codecVars >>

(***************************************************************************)
(* Log lines and status (FracturedKeyApp._log_output, _update_status).     *)
(* A line is its type, its text, the exception text in it and the bytes or *)
(* numbers formatted into it; the timestamp is left out.                   *)
(***************************************************************************)
Line(t, m, x, d) == [ t |-> t, m |-> m, x |-> x, d |-> d ]

_log_output(widget, message, x, d, msg_type) == Append(widget, Line(msg_type, message, x, d))

Info(widget, message) == _log_output(widget, message, "", <<>>, "info")

Sep(widget) == Info(widget, "---")

_update_status(message, status_type) == [ message |-> message, type |-> status_type ]

(***************************************************************************)
(* The encryption pipeline.                                                *)
(***************************************************************************)
\* a button whose state is "disabled" does not run its command when pressed
ClickMut_Always(state) == TRUE

Clickable(state) == state = "normal"

EncIdle ==
    [ pc |-> "idle", sid |-> 0, password |-> <<>>, master_password |-> <<>>, d |-> 0,
      binary_blob |-> <<>>, packaged_cipher |-> <<>>, shares |-> <<>>, i |-> 0 ]

\* what one session leaves in the envelope of share i
EnvelopeOf(password, master_password, d, i) ==
    LET e == encrypt_password_aes_gcm(password, master_password, d)
        binary_blob == e.salt \o e.nonce \o e.ciphertext_with_tag
        packaged_cipher == Nonce2Of(d) \o AEAD_Encrypt(K2Of(d), Nonce2Of(d), binary_blob)
        shares == split_bytes_into_shares(K2Of(d), n_shares, k_threshold, d)
    IN  _wrap_share_payload(shares[i], i, n_shares, k_threshold, packaged_cipher)

\* FracturedKeyApp._start_encryption
_start_encryption ==
    /\ Clickable(encrypt_btn)
    /\ LET password == Strip(encrypt_password_entry)
           master_password == Strip(encrypt_master_entry)
       IN  IF password = <<>>
           THEN /\ messagebox' = "Please enter a password to encrypt"
                /\ UNCHANGED << encVars, enc, status, histVars >>
           ELSE IF master_password = <<>>
           THEN /\ messagebox' = "Please enter a master password"
                /\ UNCHANGED << encVars, enc, status, histVars >>
           ELSE /\ encrypt_output' = <<>>
                /\ encrypt_progress' = TRUE
                /\ encrypt_btn' = "disabled"
                /\ status' = _update_status("Encrypting...", "info")
                /\ n_encrypts' = n_encrypts + 1
                /\ enc' = [ EncIdle EXCEPT !.pc = "start", !.sid = n_encrypts + 1,
                                           !.password = password,
                                           !.master_password = master_password ]
                /\ sessions' = [ sessions EXCEPT ![n_encrypts + 1] =
                                   [ password_entry |-> encrypt_password_entry,
                                     master_entry |-> encrypt_master_entry,
                                     embedded |-> {} ] ]
                /\ messagebox' = ""
                /\ UNCHANGED << encrypt_password_entry, encrypt_master_entry,
                                use_shares_var, origin, tampered, n_decrypts >>
    /\ UNCHANGED << decVars, manVars, after_queue, dec, disk, bin_file, codecVars >>

\* _encrypt_worker, lines 2124-2144: the password cipher and the blob
EncryptPassword(d) ==
    /\ enc.pc = "start"
    /\ LET e == encrypt_password_aes_gcm(enc.password, enc.master_password, d)
           ciphertext == Slice(e.ciphertext_with_tag, 0, Len(e.ciphertext_with_tag) - 16)
           auth_tag == SliceFrom(e.ciphertext_with_tag, Len(e.ciphertext_with_tag) - 16)
           l1 == Sep(Info(encrypt_output, "Starting encryption process..."))
           l2 == _log_output(l1, "Password length: {} characters", "",
                             << Len(enc.password) >>, "info")
           l3 == Info(l2, "Deriving key with Argon2id...")
           l4 == Sep(_log_output(l3, "Encryption successful!", "", <<>>, "success"))
           l5 == _log_output(l4, "Salt: {}", "", e.salt, "info")
           l6 == _log_output(l5, "Nonce: {}", "", e.nonce, "info")
           l7 == _log_output(l6, "Ciphertext: {}", "", ciphertext, "info")
           l8 == _log_output(l7, "Auth Tag: {}", "", auth_tag, "info")
       IN  /\ encrypt_output' = l8
           /\ enc' = [ enc EXCEPT !.pc = "branch", !.d = d,
                                  !.binary_blob = e.salt \o e.nonce \o e.ciphertext_with_tag ]
    /\ UNCHANGED << encrypt_password_entry, encrypt_master_entry, use_shares_var,
                    encrypt_btn, encrypt_progress, decVars, manVars, status, messagebox,
                    after_queue, dec, disk, bin_file, histVars, codecVars >>

\* _encrypt_worker, lines 2150-2163: the no-sharing mode writes encrypted_output.bin
WriteBinaryFile(io_error) ==
    /\ enc.pc = "branch"
    /\ ~use_shares_var
    /\ IF io_error
       THEN /\ encrypt_output' = _log_output(encrypt_output, "Encryption failed: {}",
                                             "OSError", <<>>, "error")
            /\ UNCHANGED bin_file
       ELSE /\ bin_file' = enc.binary_blob
            /\ encrypt_output' = _log_output(encrypt_output, "Binary file saved: {}",
                                             "", <<>>, "success")
    /\ enc' = [ enc EXCEPT !.pc = "finally" ]
    /\ UNCHANGED << encrypt_password_entry, encrypt_master_entry, use_shares_var,
                    encrypt_btn, encrypt_progress, decVars, manVars, status, messagebox,
                    after_queue, dec, disk, histVars, codecVars >>

\* _encrypt_worker, lines 2146-2149, and _create_shares_and_embed, lines 2172-2182
SplitKey ==
    /\ enc.pc = "branch"
    /\ use_shares_var
    /\ LET K2 == K2Of(enc.d)
           nonce2 == Nonce2Of(enc.d)
           packaged_ct_and_tag == AEAD_Encrypt(K2, nonce2, enc.binary_blob)
           l1 == Info(Sep(encrypt_output), "Splitting into SSS shares...")
           l2 == Info(l1, "Generating ephemeral key...")
           l3 == _log_output(l2, "Splitting key into {} shares (threshold: {})...", "",
                             << n_shares, k_threshold >>, "info")
       IN  /\ encrypt_output' = l3
           /\ enc' = [ enc EXCEPT !.pc = "loop", !.i = 1,
                                  !.packaged_cipher = nonce2 \o packaged_ct_and_tag,
                                  !.shares = split_bytes_into_shares(K2, n_shares,
                                                                     k_threshold, enc.d) ]
    /\ UNCHANGED << encrypt_password_entry, encrypt_master_entry, use_shares_var,
                    encrypt_btn, encrypt_progress, decVars, manVars, status, messagebox,
                    after_queue, dec, disk, bin_file, histVars, codecVars >>

\* the continue of line 2199: where the loop stands after share i was skipped
SkipMut_Abort(i) == [ pc |-> "finally", i |-> i ]

AfterSkip(i) == [ pc |-> "loop", i |-> i + 1 ]

\* _create_shares_and_embed, lines 2184-2220 and 2226-2227: one turn of the loop.
\* carrier_path and output_path are what the two file dialogs return.
EmbedShare(carrier_path, output_path) ==
    /\ enc.pc = "loop"
    /\ enc.i <= n_shares
    /\ LET i == enc.i
           l1 == _log_output(Sep(encrypt_output), "Processing share {}/{}...", "",
                             << i, n_shares >>, "info")
       IN  IF carrier_path = NoPath
           THEN /\ output_path = NoPath
                /\ encrypt_output' = _log_output(l1, "No carrier selected for share {}. Skipping.",
                                                 "", << i >>, "warning")
                /\ enc' = [ enc EXCEPT !.pc = AfterSkip(i).pc, !.i = AfterSkip(i).i ]
                /\ UNCHANGED << disk, origin, sessions >>
           ELSE
             LET l2 == _log_output(l1, "Carrier: {}", "", carrier_path, "info")
                 payload == _wrap_share_payload(enc.shares[i], i, n_shares, k_threshold,
                                                enc.packaged_cipher)
                 out == IF output_path = NoPath THEN << carrier_path[1], i >> ELSE output_path
                 r == embed_data_into_image(disk, carrier_path, payload, out)
             IN  IF r.exc # ""
                 THEN /\ encrypt_output' = _log_output(l2, "Share creation failed: {}", r.exc,
                                                       <<>>, "error")
                      /\ enc' = [ enc EXCEPT !.pc = "finally" ]
                      /\ UNCHANGED << disk, origin, sessions >>
                 ELSE /\ disk' = r.files
                      /\ encrypt_output' = _log_output(l2, "Share {} embedded: {}", "",
                                                       << i >> \o out, "success")
                      /\ enc' = [ enc EXCEPT !.i = i + 1 ]
                      /\ origin' = [ origin EXCEPT ![out] = enc.sid ]
                      /\ sessions' = [ sessions EXCEPT ![enc.sid].embedded = @ \cup {i} ]
    /\ UNCHANGED << encrypt_password_entry, encrypt_master_entry, use_shares_var,
                    encrypt_btn, encrypt_progress, decVars, manVars, status, messagebox,
                    after_queue, dec, bin_file, tampered, n_encrypts, n_decrypts, codecVars >>

\* _create_shares_and_embed, lines 2222-2224: after the loop
AllSharesProcessed ==
    /\ enc.pc = "loop"
    /\ enc.i > n_shares
    /\ LET l1 == _log_output(Sep(encrypt_output), "All shares processed successfully!", "",
                             <<>>, "success")
       IN  encrypt_output' = _log_output(l1, "Keep at least 2 stego images safe!", "", <<>>,
                                         "warning")
    /\ enc' = [ enc EXCEPT !.pc = "finally" ]
    /\ UNCHANGED << encrypt_password_entry, encrypt_master_entry, use_shares_var,
                    encrypt_btn, encrypt_progress, decVars, manVars, status, messagebox,
                    after_queue, dec, disk, bin_file, histVars, codecVars >>

\* _encrypt_worker, lines 2164-2165: self.after(0, self._encryption_finished)
FinallyMut_NoPost ==
    /\ enc.pc = "finally"
    /\ enc' = EncIdle
    /\ UNCHANGED << encVars, decVars, manVars, status, messagebox, after_queue, dec, disk,
                    bin_file, histVars, codecVars >>

EncryptFinally ==
    /\ enc.pc = "finally"
    /\ after_queue' = Append(after_queue, "_encryption_finished")
    /\ enc' = EncIdle
    /\ UNCHANGED << encVars, decVars, manVars, status, messagebox, dec, disk, bin_file,
                    histVars, codecVars >>

\* the callback of the encrypt operation enables both start buttons
FinishedMut_BothButtons ==
    /\ after_queue # <<>>
    /\ Head(after_queue) = "_encryption_finished"
    /\ after_queue' = Tail(after_queue)
    /\ encrypt_progress' = FALSE
    /\ encrypt_btn' = "normal"
    /\ decrypt_btn' = "normal"
    /\ status' = _update_status("Encryption completed", "success")
    /\ encrypt_password_entry' = <<>>
    /\ encrypt_master_entry' = <<>>
    /\ UNCHANGED << use_shares_var, encrypt_output, selected_images, image_listbox,
                    decrypt_master_entry, decrypt_progress, decrypt_output, manVars,
                    messagebox, enc, dec, disk, bin_file, histVars, codecVars >>

\* FracturedKeyApp._encryption_finished, run by the Tk main loop
_encryption_finished ==
    /\ after_queue # <<>>
    /\ Head(after_queue) = "_encryption_finished"
    /\ after_queue' = Tail(after_queue)
    /\ encrypt_progress' = FALSE
    /\ encrypt_btn' = "normal"
    /\ status' = _update_status("Encryption completed", "success")
    /\ encrypt_password_entry' = <<>>
    /\ encrypt_master_entry' = <<>>
    /\ UNCHANGED << use_shares_var, encrypt_output, decVars, manVars, messagebox, enc, dec,
                    disk, bin_file, histVars, codecVars >>

(***************************************************************************)
(* The decryption list.                                                    *)
(***************************************************************************)
\* FracturedKeyApp._update_image_list: the text of the list box
_update_image_list(images) ==
    IF images = <<>> THEN << [ n |-> 0, name |-> NoPath ] >>
    ELSE Tuple([ k \in 1..Len(images) |-> [ n |-> k, name |-> images[k] ] ])

InList(x, list) == \E k \in 1..Len(list) : list[k] = x

\* the files the open dialog can return: the carrier image and every stego image written
ExistingImages == { GoodCarrier } \cup { q \in StegoPaths : disk[q] # NoPayload }

\* the worker was handed the list itself instead of a copy of it
AddMut_SharedList(file_path) ==
    /\ IF file_path # NoPath /\ ~InList(file_path, selected_images)
       THEN /\ selected_images' = Append(selected_images, file_path)
            /\ image_listbox' = _update_image_list(selected_images')
            /\ dec' = IF dec.pc = "idle" THEN dec
                      ELSE [ dec EXCEPT !.image_paths = selected_images' ]
       ELSE UNCHANGED << selected_images, image_listbox, dec >>
    /\ messagebox' = ""
    /\ UNCHANGED << encVars, decrypt_master_entry, decrypt_btn, decrypt_progress,
                    decrypt_output, manVars, status, after_queue, enc,
                    disk, bin_file, histVars, codecVars >>

\* FracturedKeyApp._add_image_file; file_path is what the dialog returns
_add_image_file(file_path) ==
    /\ IF file_path # NoPath /\ ~InList(file_path, selected_images)
       THEN /\ selected_images' = Append(selected_images, file_path)
            /\ image_listbox' = _update_image_list(selected_images')
       ELSE UNCHANGED << selected_images, image_listbox >>
    /\ messagebox' = ""
    /\ UNCHANGED << encVars, decrypt_master_entry, decrypt_btn, decrypt_progress,
                    decrypt_output, manVars, status, after_queue, enc, dec,
                    disk, bin_file, histVars, codecVars >>

\* FracturedKeyApp._remove_all_images
_remove_all_images ==
    /\ selected_images' = <<>>
    /\ image_listbox' = _update_image_list(<<>>)
    /\ messagebox' = ""
    /\ UNCHANGED << encVars, decrypt_master_entry, decrypt_btn, decrypt_progress,
                    decrypt_output, manVars, status, after_queue, enc, dec,
                    disk, bin_file, histVars, codecVars >>

(***************************************************************************)
(* The decryption pipeline.                                                *)
(***************************************************************************)
DecIdle ==
    [ pc |-> "idle", image_paths |-> <<>>, master_password |-> <<>>, parsed_shares |-> <<>>,
      i |-> 0, recovered_k2 |-> <<>>, packaged_cipher |-> <<>>, binary_blob |-> <<>>,
      plaintext |-> <<>>, outcome |-> "", exc |-> "", calls |-> {},
      share_bytes_list |-> <<>> ]

\* FracturedKeyApp._start_decryption, with the least number of images it takes
StartDecryption(min_images) ==
    /\ Clickable(decrypt_btn)
    /\ IF Len(selected_images) < min_images
       THEN /\ messagebox' = "Please select at least 2 stego images"
            /\ UNCHANGED << decVars, dec, status, n_decrypts >>
       ELSE
         LET master_password == Strip(decrypt_master_entry)
         IN  IF master_password = <<>>
             THEN /\ messagebox' = "Please enter master password"
                  /\ UNCHANGED << decVars, dec, status, n_decrypts >>
             ELSE /\ decrypt_output' = <<>>
                  /\ decrypt_progress' = TRUE
                  /\ decrypt_btn' = "disabled"
                  /\ status' = _update_status("Decrypting...", "info")
                  /\ n_decrypts' = n_decrypts + 1
                  /\ dec' = [ DecIdle EXCEPT !.pc = "start",
                                             !.image_paths = selected_images,
                                             !.master_password = master_password ]
                  /\ messagebox' = ""
                  /\ UNCHANGED << selected_images, image_listbox, decrypt_master_entry >>
    /\ UNCHANGED << encVars, manVars, after_queue, enc, disk, bin_file, origin, sessions,
                    tampered, n_encrypts, codecVars >>

DecFrame ==
    UNCHANGED << encVars, selected_images, image_listbox, decrypt_master_entry, decrypt_btn,
                 decrypt_progress, manVars, status, messagebox, after_queue, enc, disk,
                 bin_file, histVars, codecVars >>

StartMut_OneImage == StartDecryption(1)

_start_decryption == StartDecryption(2)

\* the except clause of _decrypt_worker, lines 2377-2378
DecryptFailed(out, e, calls) ==
    /\ decrypt_output' = _log_output(out, "Decryption failed: {}", e, <<>>, "error")
    /\ dec' = [ dec EXCEPT !.pc = "finally", !.outcome = "Exception", !.exc = e,
                           !.calls = calls ]

\* _decrypt_worker, lines 2315-2319
DecryptBegin ==
    /\ dec.pc = "start"
    /\ decrypt_output' =
           _log_output(Sep(Info(decrypt_output, "Starting decryption process...")),
                       "Processing {} stego images...", "", << Len(dec.image_paths) >>, "info")
    /\ dec' = [ dec EXCEPT !.pc = "extract", !.i = 1 ]
    /\ DecFrame

\* an image that fails to extract or to parse is passed over
ExtractMut_SkipInvalid ==
    /\ dec.pc = "extract"
    /\ dec.i <= Len(dec.image_paths)
    /\ LET path == dec.image_paths[dec.i]
           l1 == _log_output(decrypt_output, "Extracting from: {}", "", path, "info")
           r == extract_data_from_image(disk, path)
           meta == _parse_share_payload(r.data)
           calls == dec.calls \cup {"extract"}
       IN  IF r.exc # "" \/ meta.err # ""
           THEN /\ decrypt_output' = l1
                /\ dec' = [ dec EXCEPT !.i = dec.i + 1, !.calls = calls ]
           ELSE /\ decrypt_output' = _log_output(l1, "Found share {}/{}", "",
                                                 << meta.index, meta.total >>, "success")
                /\ dec' = [ dec EXCEPT !.i = dec.i + 1, !.calls = calls,
                                       !.parsed_shares = Append(@, meta) ]
    /\ DecFrame

\* _decrypt_worker, lines 2320-2325: one turn of the extraction loop
ExtractShare ==
    /\ dec.pc = "extract"
    /\ dec.i <= Len(dec.image_paths)
    /\ LET path == dec.image_paths[dec.i]
           l1 == _log_output(decrypt_output, "Extracting from: {}", "", path, "info")
           r == extract_data_from_image(disk, path)
           meta == _parse_share_payload(r.data)
           calls == dec.calls \cup {"extract"}
       IN  IF r.exc # "" THEN DecryptFailed(l1, r.exc, calls)
           ELSE IF meta.err # "" THEN DecryptFailed(l1, meta.err, calls)
           ELSE /\ decrypt_output' = _log_output(l1, "Found share {}/{}", "",
                                                 << meta.index, meta.total >>, "success")
                /\ dec' = [ dec EXCEPT !.i = dec.i + 1, !.calls = calls,
                                       !.parsed_shares = Append(@, meta) ]
    /\ DecFrame

\* the four sets of _decrypt_worker, lines 2332-2337
ConsistentMut_NoCipher(parsed_shares) ==
    LET ks == 1..Len(parsed_shares)
        vs == { parsed_shares[k].version : k \in ks }
        totals == { parsed_shares[k].total : k \in ks }
        thresholds == { parsed_shares[k].threshold : k \in ks }
    IN  ~(Cardinality(vs) # 1 \/ Cardinality(totals) # 1 \/ Cardinality(thresholds) # 1)

ConsistentMut_CipherLength(parsed_shares) ==
    LET ks == 1..Len(parsed_shares)
        vs == { parsed_shares[k].version : k \in ks }
        totals == { parsed_shares[k].total : k \in ks }
        thresholds == { parsed_shares[k].threshold : k \in ks }
        pkg_hashes == { Len(parsed_shares[k].packaged_cipher) : k \in ks }
    IN  ~(Cardinality(vs) # 1 \/ Cardinality(totals) # 1 \/ Cardinality(thresholds) # 1
            \/ Cardinality(pkg_hashes) # 1)

Consistent(parsed_shares) ==
    LET ks == 1..Len(parsed_shares)
        vs == { parsed_shares[k].version : k \in ks }
        totals == { parsed_shares[k].total : k \in ks }
        thresholds == { parsed_shares[k].threshold : k \in ks }
        pkg_hashes == { parsed_shares[k].packaged_cipher : k \in ks }
    IN  ~(Cardinality(vs) # 1 \/ Cardinality(totals) # 1 \/ Cardinality(thresholds) # 1
            \/ Cardinality(pkg_hashes) # 1)

\* the condition of line 2341
CountMut_Never(parsed_shares, threshold) == FALSE

TooFewShares(parsed_shares, threshold) == Len(parsed_shares) < threshold

\* _decrypt_worker, lines 2327-2350: the checks between extraction and recovery
ValidateShares ==
    /\ dec.pc = "extract"
    /\ dec.i > Len(dec.image_paths)
    /\ LET parsed_shares == dec.parsed_shares
           threshold == parsed_shares[1].threshold
       IN  IF Len(parsed_shares) < 2
           THEN /\ decrypt_output' = _log_output(decrypt_output, "Not enough valid shares found",
                                                 "", <<>>, "error")
                /\ dec' = [ dec EXCEPT !.pc = "finally", !.outcome = "InsufficientShares" ]
           ELSE IF ~Consistent(parsed_shares)
           THEN /\ decrypt_output' = _log_output(decrypt_output, "Selected shares do not match!",
                                                 "", <<>>, "error")
                /\ dec' = [ dec EXCEPT !.pc = "finally", !.outcome = "InconsistentShares" ]
           ELSE IF TooFewShares(parsed_shares, threshold)
           THEN /\ decrypt_output' = _log_output(decrypt_output, "Need at least {} shares",
                                                 "", << threshold >>, "error")
                /\ dec' = [ dec EXCEPT !.pc = "finally", !.outcome = "InsufficientShares" ]
           ELSE /\ decrypt_output' = Info(Sep(decrypt_output), "Recovering ephemeral key...")
                /\ dec' = [ dec EXCEPT !.pc = "recover" ]
    /\ DecFrame

\* _decrypt_worker, lines 2353-2356: the key handed to AESGCM
NormalizeMut_NoPadding(recovered_k2) ==
    IF Len(recovered_k2) > 16
    THEN SliceFrom(recovered_k2, Len(recovered_k2) - 16)
    ELSE recovered_k2

NormalizeMut_First16(recovered_k2) ==
    IF Len(recovered_k2) < 16
    THEN Repeat(0, 16 - Len(recovered_k2)) \o recovered_k2
    ELSE Slice(recovered_k2, 0, 16)

NormalizeKey(recovered_k2) ==
    IF Len(recovered_k2) < 16
    THEN Repeat(0, 16 - Len(recovered_k2)) \o recovered_k2
    ELSE IF Len(recovered_k2) > 16
    THEN SliceFrom(recovered_k2, Len(recovered_k2) - 16)
    ELSE recovered_k2

\* parsed_shares[:threshold] of line 2349
SharesMut_OneFewer(parsed_shares, threshold) ==
    LET n == IF threshold - 1 < Len(parsed_shares) THEN threshold - 1 ELSE Len(parsed_shares)
    IN  Tuple([ k \in 1..n |-> parsed_shares[k].share_bytes ])

\* the first threshold shares by their index field
SharesMut_SortedByIndex(parsed_shares, threshold) ==
    LET n == IF threshold < Len(parsed_shares) THEN threshold ELSE Len(parsed_shares)
        D == 1..Len(parsed_shares)
        ord == CHOOSE f \in [ D -> D ] :
                 /\ \A a, b \in D : a # b => f[a] # f[b]
                 /\ \A a, b \in D : a < b => parsed_shares[f[a]].index <= parsed_shares[f[b]].index
    IN  Tuple([ k \in 1..n |-> parsed_shares[ord[k]].share_bytes ])

SharesForRecovery(parsed_shares, threshold) ==
    LET n == IF threshold < Len(parsed_shares) THEN threshold ELSE Len(parsed_shares)
    IN  Tuple([ k \in 1..n |-> parsed_shares[k].share_bytes ])

\* _decrypt_worker, lines 2349-2356: the sharer's recover and the key normalisation
RecoverKey ==
    /\ dec.pc = "recover"
    /\ LET threshold == dec.parsed_shares[1].threshold
           share_bytes_list == SharesForRecovery(dec.parsed_shares, threshold)
           r == recover_bytes_from_shares(share_bytes_list)
           calls == dec.calls \cup {"recover"}
       IN  IF r.exc # ""
           THEN /\ decrypt_output' = _log_output(decrypt_output, "Decryption failed: {}",
                                                 r.exc, <<>>, "error")
                /\ dec' = [ dec EXCEPT !.pc = "finally", !.outcome = "Exception",
                                       !.exc = r.exc, !.calls = calls,
                                       !.share_bytes_list = share_bytes_list ]
           ELSE /\ dec' = [ dec EXCEPT !.pc = "unwrap", !.calls = calls,
                                       !.share_bytes_list = share_bytes_list,
                                       !.packaged_cipher = dec.parsed_shares[1].packaged_cipher,
                                       !.recovered_k2 = NormalizeKey(r.data) ]
                /\ UNCHANGED decrypt_output
    /\ DecFrame

\* _decrypt_worker, lines 2358-2368: the unwrap under the recovered key
Unwrap ==
    /\ dec.pc = "unwrap"
    /\ LET nonce2 == Slice(dec.packaged_cipher, 0, 12)
           ct_and_tag == SliceFrom(dec.packaged_cipher, 12)
           r == AEAD_Decrypt(dec.recovered_k2, nonce2, ct_and_tag)
           calls == dec.calls \cup {"unwrap"}
       IN  IF r.exc # "" THEN DecryptFailed(decrypt_output, r.exc, calls)
           ELSE /\ decrypt_output' = Info(decrypt_output, "Decrypting with master password...")
                /\ dec' = [ dec EXCEPT !.pc = "decrypt", !.calls = calls,
                                       !.binary_blob = r.data ]
    /\ DecFrame

\* _decrypt_worker, lines 2364-2375: the password cipher and the report of the password
DecryptPassword ==
    /\ dec.pc = "decrypt"
    /\ LET salt == Slice(dec.binary_blob, 0, 16)
           nonce == Slice(dec.binary_blob, 16, 28)
           ciphertext_with_tag == SliceFrom(dec.binary_blob, 28)
           r == decrypt_password_aes_gcm(salt, nonce, ciphertext_with_tag,
                                         dec.master_password)
           calls == dec.calls \cup {"decrypt_password"}
           l1 == Sep(_log_output(Sep(decrypt_output), "DECRYPTION SUCCESSFUL!", "", <<>>,
                                 "success"))
           l2 == _log_output(l1, "Password: {}", "", r.data, "success")
       IN  IF r.exc # "" THEN DecryptFailed(decrypt_output, r.exc, calls)
           ELSE /\ decrypt_output' = _log_output(l2, "Length: {} characters", "",
                                                 << Len(r.data) >>, "info")
                /\ dec' = [ dec EXCEPT !.pc = "finally", !.calls = calls,
                                       !.outcome = "Succeeded", !.plaintext = r.data ]
    /\ DecFrame

\* _decrypt_worker, lines 2379-2380: self.after(0, self._decryption_finished)
DecryptFinally ==
    /\ dec.pc = "finally"
    /\ after_queue' = Append(after_queue, "_decryption_finished")
    /\ dec' = DecIdle
    /\ UNCHANGED << encVars, decVars, manVars, status, messagebox, enc, disk, bin_file,
                    histVars, codecVars >>

\* FracturedKeyApp._decryption_finished, run by the Tk main loop
_decryption_finished ==
    /\ after_queue # <<>>
    /\ Head(after_queue) = "_decryption_finished"
    /\ after_queue' = Tail(after_queue)
    /\ decrypt_progress' = FALSE
    /\ decrypt_btn' = "normal"
    /\ status' = _update_status("Decryption completed", "success")
    /\ decrypt_master_entry' = <<>>
    /\ selected_images' = <<>>
    /\ image_listbox' = _update_image_list(<<>>)
    /\ UNCHANGED << encVars, decrypt_output, manVars, messagebox, enc, dec, disk, bin_file,
                    histVars, codecVars >>

(***************************************************************************)
(* Manual decryption of encrypted_output.bin, all of it inside the button's *)
(* handler.  man keeps the last run: the thread that ran it, the calls it  *)
(* made, what it read and what it reported.                                *)
(***************************************************************************)
BinPath == << 300 >>

MissingPath == << 301 >>

MainThread == "MainThread"

ManIdle ==
    [ n |-> 0, thread |-> "", calls |-> {}, binary_blob |-> <<>>, salt |-> <<>>,
      nonce |-> <<>>, ciphertext_with_tag |-> <<>>, plaintext |-> <<>>, outcome |-> "",
      exc |-> "" ]

\* open(file_path, "rb").read()
ReadFile(file_path) ==
    IF file_path = BinPath /\ bin_file # NoPayload
    THEN [ exc |-> "", data |-> bin_file ]
    ELSE [ exc |-> "FileNotFoundError", data |-> <<>> ]

\* FracturedKeyApp._browse_manual_file; file_path is what the dialog returns
_browse_manual_file(file_path) ==
    /\ IF file_path # NoPath
       THEN manual_file_entry' = file_path
       ELSE UNCHANGED manual_file_entry
    /\ messagebox' = ""
    /\ UNCHANGED << manual_master_entry, manual_output, man, encVars, decVars, status,
                    after_queue, enc, dec, disk, bin_file, histVars, codecVars >>

TypeManualMaster(text) ==
    /\ manual_master_entry # text
    /\ manual_master_entry' = text
    /\ messagebox' = ""
    /\ UNCHANGED << manual_file_entry, manual_output, man, encVars, decVars, status,
                    after_queue, enc, dec, disk, bin_file, histVars, codecVars >>

\* the condition of line 2468
SmallMut_NoCheck(binary_blob) == FALSE

FileTooSmall(binary_blob) == Len(binary_blob) < 28

\* the finally clause of _start_manual_decryption, lines 2491-2494
ManualFinallyMut_KeepPath ==
    /\ manual_master_entry' = <<>>
    /\ UNCHANGED manual_file_entry

ManualFinally ==
    /\ manual_file_entry' = <<>>
    /\ manual_master_entry' = <<>>

\* FracturedKeyApp._start_manual_decryption
_start_manual_decryption ==
    /\ LET file_path == Strip(manual_file_entry)
           master_password == Strip(manual_master_entry)
           l1 == Sep(Info(<<>>, "Starting manual decryption..."))
           l2 == _log_output(l1, "File: {}", "", file_path, "info")
           f == ReadFile(file_path)
           binary_blob == f.data
           l3 == _log_output(l2, "File size: {} bytes", "", << Len(binary_blob) >>, "info")
           salt == Slice(binary_blob, 0, 16)
           nonce == Slice(binary_blob, 16, 28)
           ciphertext_with_tag == SliceFrom(binary_blob, 28)
           l4 == Info(l3, "Decrypting with master password...")
           r == decrypt_password_aes_gcm(salt, nonce, ciphertext_with_tag, master_password)
           l5 == Sep(_log_output(Sep(l4), "DECRYPTION SUCCESSFUL!", "", <<>>, "success"))
           l6 == _log_output(l5, "Password: {}", "", r.data, "success")
           l7 == _log_output(l6, "Length: {} characters", "", << Len(r.data) >>, "info")
           run == [ ManIdle EXCEPT !.n = man.n + 1, !.thread = MainThread ]
       IN  IF file_path = <<>>
           THEN /\ messagebox' = "Please select a .bin file"
                /\ UNCHANGED << manVars, status >>
           ELSE IF master_password = <<>>
           THEN /\ messagebox' = "Please enter master password"
                /\ UNCHANGED << manVars, status >>
           ELSE /\ messagebox' = ""
                /\ ManualFinally
                /\ IF f.exc # ""
                   THEN /\ manual_output' = _log_output(l2, "Manual decryption failed: {}",
                                                        f.exc, <<>>, "error")
                        /\ status' = _update_status("Manual decryption failed", "error")
                        /\ man' = [ run EXCEPT !.calls = {"open"}, !.outcome = "Exception",
                                                !.exc = f.exc ]
                   ELSE IF FileTooSmall(binary_blob)
                   THEN /\ manual_output' = _log_output(l3, "File too small to be valid",
                                                        "", <<>>, "error")
                        /\ UNCHANGED status
                        /\ man' = [ run EXCEPT !.calls = {"open"}, !.outcome = "TooSmall",
                                                !.binary_blob = binary_blob ]
                   ELSE IF r.exc # ""
                   THEN /\ manual_output' = _log_output(l4, "Manual decryption failed: {}",
                                                        r.exc, <<>>, "error")
                        /\ status' = _update_status("Manual decryption failed", "error")
                        /\ man' = [ run EXCEPT !.calls = {"open", "decrypt_password"},
                                                !.outcome = "Exception", !.exc = r.exc,
                                                !.binary_blob = binary_blob, !.salt = salt,
                                                !.nonce = nonce,
                                                !.ciphertext_with_tag = ciphertext_with_tag ]
                   ELSE /\ manual_output' = l7
                        /\ status' = _update_status("Manual decryption completed", "success")
                        /\ man' = [ run EXCEPT !.calls = {"open", "decrypt_password"},
                                                !.outcome = "Succeeded", !.plaintext = r.data,
                                                !.binary_blob = binary_blob, !.salt = salt,
                                                !.nonce = nonce,
                                                !.ciphertext_with_tag = ciphertext_with_tag ]
    /\ UNCHANGED << encVars, decVars, after_queue, enc, dec, disk, bin_file, histVars,
                    codecVars >>

(***************************************************************************)
(* The user at the entry fields and the check box.                         *)
(***************************************************************************)
TypeEncryptPassword(text) ==
    /\ encrypt_password_entry # text
    /\ encrypt_password_entry' = text
    /\ messagebox' = ""
    /\ UNCHANGED << encrypt_master_entry, use_shares_var, encrypt_btn, encrypt_progress,
                    encrypt_output, decVars, manVars, status, after_queue,
                    enc, dec, disk, bin_file, histVars, codecVars >>

TypeEncryptMaster(text) ==
    /\ encrypt_master_entry # text
    /\ encrypt_master_entry' = text
    /\ messagebox' = ""
    /\ UNCHANGED << encrypt_password_entry, use_shares_var, encrypt_btn, encrypt_progress,
                    encrypt_output, decVars, manVars, status, after_queue,
                    enc, dec, disk, bin_file, histVars, codecVars >>

ToggleUseShares ==
    /\ use_shares_var' = ~use_shares_var
    /\ messagebox' = ""
    /\ UNCHANGED << encrypt_password_entry, encrypt_master_entry, encrypt_btn,
                    encrypt_progress, encrypt_output, decVars, manVars, status, after_queue, enc, dec, disk, bin_file, histVars, codecVars >>

TypeDecryptMaster(text) ==
    /\ decrypt_master_entry # text
    /\ decrypt_master_entry' = text
    /\ messagebox' = ""
    /\ UNCHANGED << encVars, selected_images, image_listbox, decrypt_btn, decrypt_progress,
                    decrypt_output, manVars, status, after_queue, enc, dec,
                    disk, bin_file, histVars, codecVars >>

(***************************************************************************)
(* Initial state: the application after construction, with the three stego *)
(* images of an earlier session on disk.                                   *)
(***************************************************************************)
NotDecoded == ParseError("not decoded")

NoFields == [ share_bytes |-> <<>>, index |-> 0, total |-> 0, threshold |-> 0,
              packaged_cipher |-> <<>> ]

OlderImage == << CarrierBase, 1 >>

\* the stego images on disk at start
InitialDisk(with_older) ==
    [ q \in AllPaths |->
        IF q[1] = 0
        THEN EnvelopeOf(Strip(PriorPassword), Strip(PriorMaster), PriorDraw, q[2])
        ELSE IF with_older /\ q = OlderImage
        THEN EnvelopeOf(Strip(OlderPassword), Strip(OlderMaster), OlderDraw, q[2])
        ELSE NoPayload ]

\* encrypted_output.bin as the earlier session leaves it in the mode without shares
InitialBin ==
    LET e == encrypt_password_aes_gcm(Strip(PriorPassword), Strip(PriorMaster), PriorDraw)
    IN  e.salt \o e.nonce \o e.ciphertext_with_tag

AppInit(with_older, with_bin) ==
    /\ encrypt_password_entry = <<>>
    /\ encrypt_master_entry = <<>>
    /\ use_shares_var = TRUE
    /\ encrypt_btn = "normal"
    /\ encrypt_progress = FALSE
    /\ encrypt_output = <<>>
    /\ selected_images = <<>>
    /\ image_listbox = <<>>
    /\ decrypt_master_entry = <<>>
    /\ decrypt_btn = "normal"
    /\ decrypt_progress = FALSE
    /\ decrypt_output = <<>>
    /\ manual_file_entry = <<>>
    /\ manual_master_entry = <<>>
    /\ manual_output = <<>>
    /\ man = ManIdle
    /\ status = _update_status("Ready", "info")
    /\ messagebox = ""
    /\ after_queue = <<>>
    /\ enc = EncIdle
    /\ dec = DecIdle
    /\ disk = InitialDisk(with_older)
    /\ bin_file = IF with_bin THEN InitialBin ELSE NoPayload
    /\ origin = [ q \in AllPaths |->
                    IF q[1] = 0 THEN PriorSession
                    ELSE IF with_older /\ q = OlderImage THEN OlderSession
                    ELSE NoSession ]
    /\ sessions = [ n \in OlderSession..LastSession |->
                      IF n = PriorSession
                      THEN [ password_entry |-> PriorPassword, master_entry |-> PriorMaster,
                             embedded |-> 1..n_shares ]
                      ELSE IF n = OlderSession
                      THEN [ password_entry |-> OlderPassword, master_entry |-> OlderMaster,
                             embedded |-> IF with_older THEN {1} ELSE {} ]
                      ELSE [ password_entry |-> <<>>, master_entry |-> <<>>,
                             embedded |-> {} ] ]
    /\ tampered = {}
    /\ n_encrypts = 0
    /\ n_decrypts = 0

Init ==
    /\ AppInit(FALSE, FALSE)
    /\ buf = <<>>
    /\ fields = NoFields
    /\ decoded = NotDecoded
    /\ edits = 0

(***************************************************************************)
(* Spec: encryptions in both modes, with carriers that are missing or too  *)
(* small, and decryptions of the images on disk.  The user acts while no   *)
(* worker runs.                                                            *)
(***************************************************************************)
Quiescent == enc.pc = "idle" /\ dec.pc = "idle" /\ after_queue = <<>>

\* the user has encryptions, decryptions, images left to ask for
MayEncrypt == n_encrypts < MaxEncrypts

MayDecrypt == n_decrypts < MaxDecrypts

MaySelect == n_decrypts < MaxDecrypts /\ Len(selected_images) < MaxSelected

DecryptWorker ==
    \/ DecryptBegin
    \/ ExtractShare
    \/ ValidateShares
    \/ RecoverKey
    \/ Unwrap
    \/ DecryptPassword
    \/ DecryptFinally

Next ==
    \/ Quiescent /\ MayEncrypt /\ \E text \in PasswordInputs : TypeEncryptPassword(text)
    \/ Quiescent /\ MayEncrypt /\ \E text \in MasterInputs : TypeEncryptMaster(text)
    \/ Quiescent /\ MayEncrypt /\ ToggleUseShares
    \/ Quiescent /\ MayEncrypt /\ _start_encryption
    \/ Quiescent /\ MaySelect
          /\ \E file_path \in ExistingImages \cup {NoPath} : _add_image_file(file_path)
    \/ Quiescent /\ _remove_all_images
    \/ Quiescent /\ MayDecrypt /\ \E text \in MasterInputs : TypeDecryptMaster(text)
    \/ Quiescent /\ MayDecrypt /\ _start_decryption
    \/ \E d \in Draws : EncryptPassword(d)
    \/ \E io_error \in BOOLEAN : WriteBinaryFile(io_error)
    \/ SplitKey
    \/ EmbedShare(NoPath, NoPath)
    \/ \E carrier_path \in {GoodCarrier, TinyCarrier} :
          EmbedShare(carrier_path, << enc.sid, enc.i >>)
    \/ AllSharesProcessed
    \/ EncryptFinally
    \/ _encryption_finished
    \/ DecryptWorker
    \/ _decryption_finished

Spec == Init /\ [][Next]_vars

(***************************************************************************)
(* TamperSpec: one byte of a stego image of the earlier session is altered *)
(* from outside, and the images on disk are decrypted.                     *)
(***************************************************************************)
\* the change of one byte of the envelope embedded in image path
Tamper(path, pos, delta) ==
    /\ Cardinality(tampered) < MaxTampers
    /\ disk[path] # NoPayload
    /\ pos \in 1..Len(disk[path])
    /\ disk' = [ disk EXCEPT ![path][pos] = (@ + delta) % 256 ]
    /\ tampered' = tampered \cup { [ path |-> path, pos |-> pos ] }
    /\ UNCHANGED << encVars, decVars, manVars, status, messagebox, after_queue, enc, dec,
                    bin_file, origin, sessions, n_encrypts, n_decrypts, codecVars >>

\* the images of the earlier session as another release of the format would
\* have written them: every envelope carries version byte v
ForeignVersion(v) ==
    /\ tampered = {}
    /\ disk' = [ q \in AllPaths |->
                   IF q \in {0} \X (1..n_shares) THEN [ disk[q] EXCEPT ![7] = v ] ELSE disk[q] ]
    /\ tampered' = { [ path |-> q, pos |-> 7 ] : q \in {0} \X (1..n_shares) }
    /\ UNCHANGED << encVars, decVars, manVars, status, messagebox, after_queue, enc, dec,
                    bin_file, origin, sessions, n_encrypts, n_decrypts, codecVars >>

ForeignVersions == { 0, 2 }

TamperDeltas == { 1 }

PriorPaths == {0} \X (1..n_shares)

TamperInit ==
    /\ AppInit(TRUE, FALSE)
    /\ buf = <<>>
    /\ fields = NoFields
    /\ decoded = NotDecoded
    /\ edits = 0

TamperNext ==
    \/ /\ Quiescent
       /\ selected_images = <<>>
       /\ decrypt_master_entry = <<>>
       /\ \E path \in PriorPaths : \E pos \in 1..Len(disk[path]) :
             \E delta \in TamperDeltas : Tamper(path, pos, delta)
    \/ /\ Quiescent
       /\ selected_images = <<>>
       /\ decrypt_master_entry = <<>>
       /\ \E v \in ForeignVersions : ForeignVersion(v)
    \/ Quiescent /\ MaySelect
          /\ \E file_path \in PriorPaths \cup {OlderImage} : _add_image_file(file_path)
    \/ Quiescent /\ _remove_all_images
    \/ Quiescent /\ MayDecrypt /\ TypeDecryptMaster(PriorMaster)
    \/ Quiescent /\ MayDecrypt /\ _start_decryption
    \/ DecryptWorker
    \/ _decryption_finished

TamperSpec == TamperInit /\ [][TamperNext]_vars

(***************************************************************************)
(* CodecSpec: an envelope is encoded from drawn fields, edited at most     *)
(* MaxEdits times (a byte altered, the buffer cut or extended) and         *)
(* decoded.                                                                *)
(***************************************************************************)
CodecShares == { <<>>, << 5, 6 >> }

CodecCiphers == { <<>>, << 9 >>, Repeat(7, 300) }

\* index, total, threshold
CodecHeaders == { << 1, 3, 2 >>, << 2, 1, 1 >>, << 255, 255, 255 >> }

ByteVals == { 0, 1, 255 }

CodecInit ==
    /\ AppInit(FALSE, FALSE)
    /\ \E sb \in CodecShares, pc \in CodecCiphers, h \in CodecHeaders :
          /\ fields = [ share_bytes |-> sb, index |-> h[1], total |-> h[2],
                        threshold |-> h[3], packaged_cipher |-> pc ]
          /\ buf = _wrap_share_payload(sb, h[1], h[2], h[3], pc)
    /\ decoded = NotDecoded
    /\ edits = 0

AppFrame ==
    UNCHANGED << encVars, decVars, manVars, status, messagebox, after_queue, enc, dec, disk,
                 bin_file, histVars >>

Editable == decoded = NotDecoded /\ edits < MaxEdits

AlterByte(pos, v) ==
    /\ Editable
    /\ pos \in 1..Len(buf)
    /\ buf[pos] # v
    /\ buf' = [ buf EXCEPT ![pos] = v ]
    /\ edits' = edits + 1
    /\ UNCHANGED << fields, decoded >>
    /\ AppFrame

Truncate(n) ==
    /\ Editable
    /\ n < Len(buf)
    /\ buf' = SubSeq(buf, 1, n)
    /\ edits' = edits + 1
    /\ UNCHANGED << fields, decoded >>
    /\ AppFrame

AppendByte(v) ==
    /\ Editable
    /\ buf' = Append(buf, v)
    /\ edits' = edits + 1
    /\ UNCHANGED << fields, decoded >>
    /\ AppFrame

\* decode: FracturedKeyApp._parse_share_payload applied to the buffer
Decode ==
    /\ decoded = NotDecoded
    /\ decoded' = _parse_share_payload(buf)
    /\ UNCHANGED << buf, fields, edits >>
    /\ AppFrame

CodecNext ==
    \/ \E pos \in 1..EditWindow, v \in ByteVals : AlterByte(pos, v)
    \/ \E n \in (0..EditWindow) \cup {Len(buf) - 1} : Truncate(n)
    \/ \E v \in ByteVals : AppendByte(v)
    \/ Decode

CodecSpec == CodecInit /\ [][CodecNext]_vars

(***************************************************************************)
(* ForeignSpec: the stego images the user selects were written by another  *)
(* producer of the envelope format, whose sharer secret is shorter or      *)
(* longer than 16 bytes, whose threshold is 3, or whose wrapped blob is    *)
(* shorter than the password cipher's header; or one of them is damaged or *)
(* is a plain image without a payload.                                     *)
(***************************************************************************)
\* a secret of len bytes; up to 16 bytes it is a 16-byte key with leading zeros
ForeignKey(len) ==
    IF len < 16 THEN Repeat(0, 16 - len) \o Tuple([ k \in 1..len |-> 50 + k ])
    ELSE Tuple([ k \in 1..len |-> 50 + k ])

ForeignProducers ==
    { [ secret |-> ForeignKey(len), threshold |-> k_threshold, blob |-> InitialBin ] :
        len \in 14..18 }
    \cup { [ secret |-> ForeignKey(16), threshold |-> 3, blob |-> InitialBin ] }
    \cup { [ secret |-> ForeignKey(16), threshold |-> k_threshold,
             blob |-> SubSeq(InitialBin, 1, n) ] : n \in { 0, 27, 28 } }

\* the envelope of share i of producer f: the blob is wrapped under the last 16
\* bytes of the secret
ForeignEnvelope(f, i) ==
    LET d == 3
        key == SubSeq(f.secret, Len(f.secret) - 15, Len(f.secret))
        packaged_cipher == Nonce2Of(d) \o AEAD_Encrypt(key, Nonce2Of(d), f.blob)
        shares == split_bytes_into_shares(f.secret, n_shares, f.threshold, d)
    IN  _wrap_share_payload(shares[i], i, n_shares, f.threshold, packaged_cipher)

\* the stego images at paths are replaced by those of producer f
PlantForeign(f, paths) ==
    /\ tampered = {}
    /\ disk' = [ q \in AllPaths |->
                   IF q \in paths THEN ForeignEnvelope(f, q[2]) ELSE disk[q] ]
    /\ origin' = [ q \in AllPaths |-> IF q \in paths THEN NoSession ELSE origin[q] ]
    /\ tampered' = { [ path |-> q, pos |-> 0 ] : q \in paths }
    /\ UNCHANGED << encVars, decVars, manVars, status, messagebox, after_queue, enc, dec,
                    bin_file, sessions, n_encrypts, n_decrypts, codecVars >>

ForeignNext ==
    \/ /\ Quiescent
       /\ selected_images = <<>>
       /\ decrypt_master_entry = <<>>
       /\ \E f \in ForeignProducers :
             \E paths \in { PriorPaths, PriorPaths \ { << 0, 1 >> } } : PlantForeign(f, paths)
    \/ /\ Quiescent
       /\ selected_images = <<>>
       /\ decrypt_master_entry = <<>>
       /\ \E path \in PriorPaths : Tamper(path, 1, 1)
    \/ Quiescent /\ MayDecrypt /\ Len(selected_images) < MaxPicked
          /\ \E file_path \in PriorPaths \cup {GoodCarrier} : _add_image_file(file_path)
    \/ Quiescent /\ _remove_all_images
    \/ Quiescent /\ MayDecrypt /\ TypeDecryptMaster(PriorMaster)
    \/ Quiescent /\ MayDecrypt /\ _start_decryption
    \/ DecryptWorker
    \/ _decryption_finished

ForeignSpec == Init /\ [][ForeignNext]_vars

(***************************************************************************)
(* ManualSpec: encrypted_output.bin, as the earlier session left it or as  *)
(* an encryption without shares rewrites it, is cut short from outside or  *)
(* left whole, and then decrypted on the manual tab.                       *)
(***************************************************************************)
MaxManual == 1

\* the file cut to its first n bytes from outside the application
TruncateFile(n) ==
    /\ bin_file # NoPayload
    /\ n < Len(bin_file)
    /\ bin_file' = SubSeq(bin_file, 1, n)
    /\ tampered' = tampered \cup { [ path |-> BinPath, pos |-> n ] }
    /\ UNCHANGED << encVars, decVars, manVars, status, messagebox, after_queue, enc, dec,
                    disk, origin, sessions, n_encrypts, n_decrypts, codecVars >>

ManualInit ==
    /\ AppInit(FALSE, TRUE)
    /\ buf = <<>>
    /\ fields = NoFields
    /\ decoded = NotDecoded
    /\ edits = 0

ManualUntouched ==
    /\ man.n = 0
    /\ manual_file_entry = <<>>
    /\ manual_master_entry = <<>>
    /\ tampered = {}

MayManual == man.n < MaxManual

ManualNext ==
    \/ Quiescent /\ MayEncrypt /\ ManualUntouched /\ TypeEncryptPassword(<< 104, 50 >>)
    \/ Quiescent /\ MayEncrypt /\ ManualUntouched
          /\ \E text \in MasterInputs : TypeEncryptMaster(text)
    \/ Quiescent /\ MayEncrypt /\ ManualUntouched /\ ToggleUseShares
    \/ Quiescent /\ MayEncrypt /\ ManualUntouched /\ _start_encryption
    \/ \E d \in Draws : EncryptPassword(d)
    \/ \E io_error \in BOOLEAN : WriteBinaryFile(io_error)
    \/ SplitKey
    \/ EmbedShare(NoPath, NoPath)
    \/ AllSharesProcessed
    \/ EncryptFinally
    \/ _encryption_finished
    \/ Quiescent /\ ManualUntouched /\ \E n \in 0..(Len(bin_file) - 1) : TruncateFile(n)
    \/ Quiescent /\ MayManual
          /\ \E file_path \in { BinPath, MissingPath, NoPath } : _browse_manual_file(file_path)
    \/ Quiescent /\ MayManual /\ \E text \in MasterInputs : TypeManualMaster(text)
    \/ Quiescent /\ MayManual /\ _start_manual_decryption

ManualSpec == ManualInit /\ [][ManualNext]_vars

(***************************************************************************)
(* OpsSpec: the three tabs side by side.  The user fills the entries while *)
(* nothing runs and presses the three start buttons at any time, also      *)
(* while the workers of the other tabs, or of the same tab, are running.   *)
(***************************************************************************)
OpsInit ==
    /\ AppInit(FALSE, TRUE)
    /\ buf = <<>>
    /\ fields = NoFields
    /\ decoded = NotDecoded
    /\ edits = 0

OpsImages == { << 0, 1 >>, << 0, 2 >> }

\* an operation is Running from the start of its worker to its finished callback
EncRunning == enc.pc # "idle" \/ \E k \in 1..Len(after_queue) : after_queue[k] = "_encryption_finished"

DecRunning == dec.pc # "idle" \/ \E k \in 1..Len(after_queue) : after_queue[k] = "_decryption_finished"

\* the user presses a start button for a first operation, and again while it runs
MayPress(started, running) == started < 1 \/ (running /\ started < MaxOps)

OpsNext ==
    \/ Quiescent /\ n_encrypts < 1 /\ TypeEncryptPassword(<< 104, 50 >>)
    \/ Quiescent /\ n_encrypts < 1 /\ encrypt_password_entry # <<>>
          /\ TypeEncryptMaster(PriorMaster)
    \/ Quiescent /\ n_encrypts < 1 /\ encrypt_password_entry = <<>> /\ ToggleUseShares
    \/ MayPress(n_encrypts, EncRunning) /\ _start_encryption
    \/ Quiescent /\ n_decrypts < 1 /\ Len(selected_images) < MaxSelected
          /\ \E file_path \in OpsImages : _add_image_file(file_path)
    \/ Quiescent /\ n_decrypts < 1 /\ Len(selected_images) = Cardinality(OpsImages)
          /\ \E text \in MasterInputs : TypeDecryptMaster(text)
    \/ MayPress(n_decrypts, DecRunning) /\ _start_decryption
    \/ Quiescent /\ man.n < 1
          /\ \E file_path \in { BinPath, MissingPath } : _browse_manual_file(file_path)
    \/ Quiescent /\ man.n < 1 /\ manual_file_entry # <<>>
          /\ TypeManualMaster(PriorMaster)
    \/ man.n < 1 /\ _start_manual_decryption
    \/ \E d \in Draws : EncryptPassword(d)
    \/ \E io_error \in BOOLEAN : WriteBinaryFile(io_error)
    \/ SplitKey
    \/ EmbedShare(NoPath, NoPath)
    \/ EmbedShare(TinyCarrier, << enc.sid, enc.i >>)
    \/ AllSharesProcessed
    \/ EncryptFinally
    \/ _encryption_finished
    \/ DecryptWorker
    \/ _decryption_finished

OpsSpec == OpsInit /\ [][OpsNext]_vars

(***************************************************************************)
(* RecoverSpec: up to MaxPicked of the earlier session's stego images, in  *)
(* any order and with repetitions, are selected and decrypted.             *)
(***************************************************************************)
RecoverNext ==
    \/ Quiescent /\ MayDecrypt /\ Len(selected_images) < MaxPicked
          /\ \E file_path \in PriorPaths : _add_image_file(file_path)
    \/ Quiescent /\ _remove_all_images
    \/ Quiescent /\ MayDecrypt /\ \E text \in MasterInputs : TypeDecryptMaster(text)
    \/ Quiescent /\ MayDecrypt /\ _start_decryption
    \/ DecryptWorker
    \/ _decryption_finished

RecoverSpec == Init /\ [][RecoverNext]_vars

(***************************************************************************)
(* ListSpec: the list of selected images stays editable while a decrypt    *)
(* operation runs; the user adds the earlier session's images and empties  *)
(* the list before the operation and during it.                            *)
(***************************************************************************)
ListNext ==
    \/ (MayDecrypt \/ DecRunning) /\ Len(selected_images) < MaxPicked
          /\ \E file_path \in PriorPaths : _add_image_file(file_path)
    \/ (MayDecrypt \/ DecRunning) /\ selected_images # <<>> /\ _remove_all_images
    \/ Quiescent /\ MayDecrypt /\ TypeDecryptMaster(PriorMaster)
    \/ MayDecrypt /\ _start_decryption
    \/ DecryptWorker
    \/ _decryption_finished

ListSpec == Init /\ [][ListNext]_vars

(***************************************************************************)
(* LiveSpec: Spec with the scheduling the program relies on.  A started    *)
(* thread keeps running, the calls it makes return, and the Tk main loop   *)
(* runs the callbacks posted with after(0, ...).                           *)
(***************************************************************************)
EncryptWorker ==
    \/ \E d \in Draws : EncryptPassword(d)
    \/ \E io_error \in BOOLEAN : WriteBinaryFile(io_error)
    \/ SplitKey
    \/ EmbedShare(NoPath, NoPath)
    \/ \E carrier_path \in {GoodCarrier, TinyCarrier} :
          EmbedShare(carrier_path, << enc.sid, enc.i >>)
    \/ AllSharesProcessed
    \/ EncryptFinally

\* weak fairness of the worker threads, WF_vars(EncryptWorker \/ DecryptWorker),
\* with ENABLED written out: a worker step is enabled exactly when a worker is
\* between its start and the posting of its completion event
WorkersFair ==
    \/ []<>(enc.pc = "idle" /\ dec.pc = "idle")
    \/ []<><<EncryptWorker \/ DecryptWorker>>_vars

LiveSpec ==
    /\ Spec
    /\ WorkersFair
    /\ WF_vars(_encryption_finished)
    /\ WF_vars(_decryption_finished)

(***************************************************************************)
(* Properties.  A finished decrypt operation is observed where its worker  *)
(* stands at its finally clause, all its locals still in place.            *)
(***************************************************************************)
RunSessions == PriorSession..MaxEncrypts

DecPaths == { dec.image_paths[k] : k \in 1..Len(dec.image_paths) }

Untampered(path) == \A t \in tampered : t.path # path

\* the operation runs over images that session s wrote and nobody altered
SharesOfSession(s) ==
    /\ Len(dec.image_paths) >= 2
    /\ \A path \in DecPaths : origin[path] = s /\ Untampered(path)

\* the operation runs over 2 of the 3 images of session s, with the master
\* password that was entered for s
TwoOfThree(s) ==
    /\ SharesOfSession(s)
    /\ Len(dec.image_paths) = 2
    /\ dec.image_paths[1] # dec.image_paths[2]
    /\ sessions[s].embedded = 1..n_shares
    /\ decrypt_master_entry = sessions[s].master_entry

PasswordLines == { k \in 1..Len(decrypt_output) : decrypt_output[k].m = "Password: {}" }

Reported(password) ==
    /\ dec.plaintext = password
    /\ PasswordLines # {}
    /\ \A k \in PasswordLines : decrypt_output[k].d = password

Crypto == { "recover", "unwrap", "decrypt_password" }

\* C1, as the claim states it: decrypting 2 of the 3 images of a session with
\* its master password yields the password exactly as it was entered
C1_AsEntered ==
    \A s \in RunSessions :
        (dec.pc = "finally" /\ TwoOfThree(s))
            => dec.outcome = "Succeeded" /\ Reported(sessions[s].password_entry)

\* C1: decrypting any 2 of the 3 images of a sharing-mode session, in either
\* order, with its master password succeeds and yields the entered password
\* with its leading and trailing whitespace removed, which is the entered
\* password itself when it has none
C1_RoundTrip ==
    \A s \in RunSessions :
        (dec.pc = "finally" /\ TwoOfThree(s))
            => /\ dec.outcome = "Succeeded"
               /\ Reported(Strip(sessions[s].password_entry))
               /\ (sessions[s].password_entry = Strip(sessions[s].password_entry)
                     => dec.plaintext = sessions[s].password_entry)

C1_Witness ==
    /\ dec.pc = "finally"
    /\ TwoOfThree(1)
    /\ dec.image_paths = << << 1, 3 >>, << 1, 1 >> >>
    /\ sessions[1].password_entry = << 32, 120 >>
    /\ dec.plaintext = << 120 >>

\* C2: over untampered images of one session and a master password other
\* than the session's, no state of the decrypt operation holds a plaintext
\* or a password line in the log, and the operation ends in the password
\* cipher's authentication failure
C2_WrongMaster ==
    \A s \in RunSessions :
        (dec.pc # "idle" /\ SharesOfSession(s)
           /\ dec.master_password # Strip(sessions[s].master_entry))
            => /\ dec.plaintext = <<>>
               /\ PasswordLines = {}
               /\ \A k \in 1..Len(decrypt_output) :
                     decrypt_output[k].d # Strip(sessions[s].password_entry)
               /\ dec.pc = "finally"
                     => /\ dec.outcome = "Exception"
                        /\ dec.exc = InvalidTag
                        /\ "decrypt_password" \in dec.calls
                        /\ decrypt_output[Len(decrypt_output)].m = "Decryption failed: {}"

C2_Witness ==
    /\ dec.pc = "finally"
    /\ SharesOfSession(1)
    /\ dec.master_password # Strip(sessions[1].master_entry)
    /\ dec.exc = InvalidTag
    /\ dec.calls = { "extract", "recover", "unwrap", "decrypt_password" }

\* C3: decoding an encoded envelope returns the share bytes, index, total,
\* threshold and packaged cipher it was encoded from, with both lengths true
C3_DecodeEncode ==
    (edits = 0 /\ decoded # NotDecoded)
        => /\ decoded.err = ""
           /\ decoded.share_bytes = fields.share_bytes
           /\ decoded.index = fields.index
           /\ decoded.total = fields.total
           /\ decoded.threshold = fields.threshold
           /\ decoded.packaged_cipher = fields.packaged_cipher
           /\ decoded.share_len = Len(fields.share_bytes)
           /\ decoded.packaged_cipher_len = Len(fields.packaged_cipher)

C3_Witness ==
    /\ edits = 0
    /\ decoded.err = ""
    /\ decoded.index = 255
    /\ decoded.share_len = 2
    /\ decoded.packaged_cipher_len = 300

Disagree(a, b) ==
    \/ a.version # b.version
    \/ a.total # b.total
    \/ a.threshold # b.threshold
    \/ a.packaged_cipher # b.packaged_cipher

AllParsed == Len(dec.parsed_shares) = Len(dec.image_paths)

\* C4: once two parsed envelopes of a decrypt operation disagree on version,
\* total, threshold or packaged cipher, recover, unwrap and the password
\* cipher are never called and no plaintext appears, and when all envelopes
\* parsed the operation ends with "Selected shares do not match!"; images of
\* two different sessions are such a case
C4_Inconsistent ==
    /\ (dec.pc # "idle"
          /\ \E i, j \in 1..Len(dec.parsed_shares) :
                Disagree(dec.parsed_shares[i], dec.parsed_shares[j]))
           => /\ dec.calls \cap Crypto = {}
              /\ dec.plaintext = <<>>
              /\ PasswordLines = {}
              /\ (dec.pc = "finally" /\ AllParsed)
                    => /\ dec.outcome = "InconsistentShares"
                       /\ decrypt_output[Len(decrypt_output)].m
                              = "Selected shares do not match!"
    /\ (dec.pc = "finally" /\ Len(dec.image_paths) = 2
          /\ \A path \in DecPaths : origin[path] # NoSession /\ Untampered(path)
          /\ origin[dec.image_paths[1]] # origin[dec.image_paths[2]])
           => /\ AllParsed
              /\ dec.parsed_shares[1].packaged_cipher # dec.parsed_shares[2].packaged_cipher
              /\ dec.outcome = "InconsistentShares"
              /\ dec.calls \cap Crypto = {}

C4_Witness ==
    /\ dec.pc = "finally"
    /\ dec.image_paths = << << 0, 2 >>, OlderImage >>
    /\ tampered = {}
    /\ dec.parsed_shares[1].threshold = dec.parsed_shares[2].threshold
    /\ dec.outcome = "InconsistentShares"

\* C5: pressing Decrypt with exactly 1 selected image shows "Please select at
\* least 2 stego images" and starts nothing, whatever the image holds and
\* whatever master password is entered; no decrypt worker ever runs over
\* fewer than 2 images
C5_OneImage ==
    /\ [](dec.pc # "idle" => Len(dec.image_paths) >= 2)
    /\ [][(Len(selected_images) = 1 /\ _start_decryption)
            => /\ messagebox' = "Please select at least 2 stego images"
               /\ dec' = DecIdle
               /\ dec = DecIdle
               /\ UNCHANGED << decVars, status, after_queue, n_decrypts >>]_vars

C5_Witness ==
    /\ messagebox = "Please select at least 2 stego images"
    /\ Len(selected_images) = 1
    /\ _parse_share_payload(disk[selected_images[1]]).err = ""
    /\ decrypt_master_entry = PriorMaster
    /\ dec = DecIdle
    /\ n_decrypts = 0

\* byte pos of the envelope lies in its packaged cipher
InPackagedCipher(envelope, pos) ==
    /\ Len(envelope) >= 18
    /\ pos > 18 + FromBytes(SubSeq(envelope, 11, 14))
    /\ pos <= Len(envelope)

\* the operation runs over one image of the earlier session with one byte of
\* its packaged cipher altered, and one untampered image of that session
OneCipherByteAltered ==
    /\ Len(dec.image_paths) = 2
    /\ \A path \in DecPaths : origin[path] = PriorSession
    /\ \E k \in 1..2 :
          /\ Untampered(dec.image_paths[3 - k])
          /\ \E t \in tampered :
                /\ t.path = dec.image_paths[k]
                /\ InPackagedCipher(disk[t.path], t.pos)
                /\ \A u \in tampered : u.path = t.path => u = t

\* C6, as the claim states it: the tampered envelope parses and the
\* operation fails at the unwrap with the authentication failure
C6_FailsAtUnwrap ==
    (dec.pc = "finally" /\ OneCipherByteAltered)
        => /\ AllParsed
           /\ dec.outcome = "Exception"
           /\ dec.exc = InvalidTag
           /\ "unwrap" \in dec.calls

\* C6: the tampered envelope parses, and the operation ends at the
\* consistency check with "Selected shares do not match!", before recover
\* and unwrap are called; no plaintext appears
C6_FailsAtConsistency ==
    (dec.pc = "finally" /\ OneCipherByteAltered)
        => /\ AllParsed
           /\ dec.outcome = "InconsistentShares"
           /\ dec.calls \cap Crypto = {}
           /\ dec.plaintext = <<>>
           /\ PasswordLines = {}

C6_Witness ==
    /\ dec.pc = "finally"
    /\ OneCipherByteAltered
    /\ \E t \in tampered : t.path = dec.image_paths[2] /\ t.pos = Len(disk[t.path])
    /\ dec.outcome = "InconsistentShares"
    /\ Len(dec.parsed_shares) = 2

\* C7: a buffer shorter than 18 bytes decodes to TooShort and to no field,
\* whatever it holds
C7_TooShort ==
    (decoded # NotDecoded /\ Len(buf) < 18) => decoded = ParseError(TooShort)

C7_Witness ==
    /\ decoded = ParseError(TooShort)
    /\ Len(buf) = 17
    /\ SubSeq(buf, 1, 6) # << 70, 75, 83, 83, 48, 49 >>

\* C8: a buffer of at least 18 bytes whose first 6 bytes are not FKSS01
\* decodes to MagicMismatch, whatever the rest of its header says
C8_MagicMismatch ==
    (decoded # NotDecoded /\ Len(buf) >= 18
       /\ SubSeq(buf, 1, 6) # << 70, 75, 83, 83, 48, 49 >>)
        => decoded = ParseError(MagicMismatch)

C8_Witness ==
    /\ decoded = ParseError(MagicMismatch)
    /\ Len(buf) >= 18
    /\ buf[6] # 49
    /\ buf[11] = 255

\* the lengths the header of a buffer declares exceed the bytes after it
DeclaredExceeds(b) ==
    \/ b[11] # 0
    \/ b[15] # 0
    \/ (b[12] * 65536 + b[13] * 256 + b[14]) + (b[16] * 65536 + b[17] * 256 + b[18])
          > Len(b) - 18

\* C9: a buffer with the magic whose declared lengths exceed the bytes after
\* the 18-byte header decodes to SizeOverflow and to no slice
C9_SizeOverflow ==
    (decoded # NotDecoded /\ Len(buf) >= 18
       /\ SubSeq(buf, 1, 6) = << 70, 75, 83, 83, 48, 49 >>
       /\ DeclaredExceeds(buf))
        => decoded = ParseError(SizeOverflow)

C9_Witness ==
    /\ decoded = ParseError(SizeOverflow)
    /\ Len(buf) = 18 + Len(fields.share_bytes) + Len(fields.packaged_cipher) - 1
    /\ Len(fields.share_bytes) = 2
    /\ Len(fields.packaged_cipher) = 1

\* C10, as the claim states it: a buffer decodes only when its length is the
\* header's 18 bytes plus the two lengths it declares
C10_ExactLength ==
    (decoded # NotDecoded /\ decoded.err = "")
        => Len(buf) = 18 + decoded.share_len + decoded.packaged_cipher_len

\* C11, as the claim states it: encoding the fields of a buffer that decoded
\* gives the buffer back, byte for byte
C11_EncodeDecode ==
    (decoded # NotDecoded /\ decoded.err = "")
        => _wrap_share_payload(decoded.share_bytes, decoded.index, decoded.total,
                               decoded.threshold, decoded.packaged_cipher) = buf

\* C12, as the claim states it: a decrypt operation that parsed an envelope
\* whose version byte is not 1 never calls the sharer's recover
C12_VersionRejected ==
    (dec.pc # "idle"
       /\ \E k \in 1..Len(dec.parsed_shares) : dec.parsed_shares[k].version # 1)
        => "recover" \notin dec.calls

ManualPasswordLines == { k \in 1..Len(manual_output) : manual_output[k].m = "Password: {}" }

\* C18: a manual decryption that reaches the password cipher hands it bytes
\* 0..15 of the file as salt, bytes 16..27 as nonce and the rest as ciphertext
\* and tag, which gives back the password of the encryption without shares
\* that wrote the file; on a file of fewer than 28 bytes the password cipher's
\* decrypt is never called and no plaintext is produced or logged
C18_ManualLayout ==
    /\ "decrypt_password" \in man.calls
         => /\ Len(man.binary_blob) >= 28
            /\ man.salt = SubSeq(man.binary_blob, 1, 16)
            /\ man.nonce = SubSeq(man.binary_blob, 17, 28)
            /\ man.ciphertext_with_tag = SubSeq(man.binary_blob, 29, Len(man.binary_blob))
    /\ (man.outcome = "Succeeded" /\ tampered = {})
         => \E s \in PriorSession..n_encrypts :
               man.plaintext = Strip(sessions[s].password_entry)
    /\ (man.n > 0 /\ Len(man.binary_blob) < 28)
         => /\ "decrypt_password" \notin man.calls
            /\ man.plaintext = <<>>
            /\ ManualPasswordLines = {}
            /\ man.outcome # "Succeeded"

\* a file of 27 bytes was put through the manual decryption
C18_Witness ==
    /\ man.outcome = "TooSmall"
    /\ Len(man.binary_blob) = 27
    /\ bin_file = man.binary_blob

QueuedCallbacks(name) == { k \in 1..Len(after_queue) : after_queue[k] = name }

\* C13: while an encrypt or decrypt operation is Running its start button is
\* disabled, no step starts a second worker of its class, and the event queue
\* holds at most one completion event of each class and no start request; a
\* manual decryption is one step of the presentation thread
C13_OneRunning ==
    /\ [](EncRunning => encrypt_btn = "disabled")
    /\ [](DecRunning => decrypt_btn = "disabled")
    /\ [](/\ Cardinality(QueuedCallbacks("_encryption_finished")) <= 1
          /\ Cardinality(QueuedCallbacks("_decryption_finished")) <= 1
          /\ \A k \in 1..Len(after_queue) :
                after_queue[k] \in { "_encryption_finished", "_decryption_finished" }
          /\ (enc.pc # "idle" => QueuedCallbacks("_encryption_finished") = {})
          /\ (dec.pc # "idle" => QueuedCallbacks("_decryption_finished") = {}))
    /\ [][/\ EncRunning => (n_encrypts' = n_encrypts
                             /\ (enc.pc # "idle" /\ enc'.pc # "idle" => enc'.sid = enc.sid))
          /\ DecRunning => n_decrypts' = n_decrypts
          /\ man'.n \in { man.n, man.n + 1 }]_vars

\* an encrypt and a decrypt worker run side by side after a manual decryption,
\* with the entries of both tabs still filled in
C13_Witness ==
    /\ enc.pc # "idle"
    /\ dec.pc # "idle"
    /\ man.n = 1
    /\ Strip(encrypt_password_entry) # <<>>
    /\ Strip(encrypt_master_entry) # <<>>
    /\ Len(selected_images) >= 2
    /\ Strip(decrypt_master_entry) # <<>>

ErrorLines(output) == { k \in 1..Len(output) : output[k].t = "error" }

\* C14: the step by which an operation leaves Running, after a success or a
\* failure, leaves its button enabled, its progress indicator stopped and its
\* inputs empty: password and master password for encrypt, master password and
\* image list for decrypt, file path and master password for manual decrypt
C14_LeavesRunning ==
    [][/\ (EncRunning /\ ~EncRunning')
            => /\ encrypt_btn' = "normal"
               /\ ~encrypt_progress'
               /\ encrypt_password_entry' = <<>>
               /\ encrypt_master_entry' = <<>>
       /\ (DecRunning /\ ~DecRunning')
            => /\ decrypt_btn' = "normal"
               /\ ~decrypt_progress'
               /\ decrypt_master_entry' = <<>>
               /\ selected_images' = <<>>
               /\ image_listbox' = _update_image_list(<<>>)
       /\ (man'.n # man.n)
            => /\ manual_file_entry' = <<>>
               /\ manual_master_entry' = <<>>]_vars

\* all three operations have run and failed, and nothing is Running
C14_Witness ==
    /\ n_encrypts = 1 /\ ~EncRunning /\ ErrorLines(encrypt_output) # {}
    /\ n_decrypts = 1 /\ ~DecRunning /\ ErrorLines(decrypt_output) # {}
    /\ man.n = 1 /\ man.outcome = "Exception"
    /\ encrypt_btn = "normal" /\ decrypt_btn = "normal"
    /\ selected_images = <<>> /\ manual_file_entry = <<>>

FailureLines(output) ==
    { k \in 1..Len(output) :
        output[k].m \in { "Encryption failed: {}", "Share creation failed: {}",
                          "Decryption failed: {}", "Selected shares do not match!",
                          "Not enough valid shares found", "Need at least {} shares" } }

\* C15, as the claim states it: once an encrypt or decrypt operation that
\* logged an exception, or a stop on inconsistent or insufficient shares, has
\* ended, the status it reports is not a success
C15_FailureReported ==
    /\ (Quiescent /\ n_encrypts > 0 /\ n_decrypts = 0 /\ FailureLines(encrypt_output) # {})
         => status.type # "success"
    /\ (Quiescent /\ n_decrypts > 0 /\ n_encrypts = 0 /\ FailureLines(decrypt_output) # {})
         => status.type # "success"

\* C16, as the claim states it: a step taken while a worker is between its
\* start and the posting of its completion event, which is a step of that
\* worker's thread, leaves the log widgets, the status, the buttons and the
\* entry fields as they are
C16_WorkerPostsOnly ==
    [][(enc.pc # "idle" \/ dec.pc # "idle")
          => /\ encrypt_output' = encrypt_output
             /\ decrypt_output' = decrypt_output
             /\ status' = status
             /\ encrypt_btn' = encrypt_btn
             /\ decrypt_btn' = decrypt_btn
             /\ encrypt_password_entry' = encrypt_password_entry
             /\ encrypt_master_entry' = encrypt_master_entry
             /\ decrypt_master_entry' = decrypt_master_entry]_vars

LinesWith(output, message) == { k \in 1..Len(output) : output[k].m = message }

\* C17, as the claim states it: an ended encrypt operation in sharing mode
\* that embedded fewer than 3 shares neither logs that all shares were
\* processed successfully nor reports a success
C17_AllSharesOrNoSuccess ==
    (/\ Quiescent
     /\ n_encrypts > 0
     /\ n_decrypts = 0
     /\ LinesWith(encrypt_output, "Processing share {}/{}...") # {}
     /\ sessions[n_encrypts].embedded # 1..n_shares)
        => /\ LinesWith(encrypt_output, "All shares processed successfully!") = {}
           /\ status.type # "success"

\* C19, as the claim states it: the file read and the cipher call of a manual
\* decryption are not made by the presentation thread
C19_ManualOnWorker ==
    (man.n > 0 /\ man.calls # {}) => man.thread # MainThread

\* the envelope in the k-th selected image
SelectedEnvelope(k) == _parse_share_payload(extract_data_from_image(disk, selected_images[k]).data)

\* C20: once a decrypt operation has called the sharer's recover, the shares
\* it passed are the share_bytes of the envelopes in the first threshold
\* selected images, in the order of selection and threshold many, and the
\* packaged cipher it unwraps is that of the first selected image's envelope
C20_FirstThreshold ==
    (dec.pc # "idle" /\ "recover" \in dec.calls)
        => LET threshold == SelectedEnvelope(1).threshold
           IN  /\ dec.image_paths = selected_images
               /\ Len(dec.share_bytes_list) = threshold
               /\ \A k \in 1..threshold :
                     dec.share_bytes_list[k] = SelectedEnvelope(k).share_bytes
               /\ (dec.pc \in { "unwrap", "decrypt" } \/ "unwrap" \in dec.calls)
                     => dec.packaged_cipher = SelectedEnvelope(1).packaged_cipher

\* the shares with index 3, 1 and 2 were selected in this order and recover
\* was called
C20_Witness ==
    /\ dec.pc # "idle"
    /\ "recover" \in dec.calls
    /\ selected_images = << << 0, 3 >>, << 0, 1 >>, << 0, 2 >> >>
    /\ dec.share_bytes_list = << SelectedEnvelope(1).share_bytes, SelectedEnvelope(2).share_bytes >>
    /\ SelectedEnvelope(1).index = 3
    /\ SelectedEnvelope(2).index = 1

\* what the sharer's recover returned for the shares the operation passed
RawKey == recover_bytes_from_shares(dec.share_bytes_list).data

\* C21: the key a decrypt operation unwraps with has exactly 16 bytes: what
\* recover returned, left-padded with zero bytes if it was shorter, cut to its
\* last 16 bytes if it was longer, unchanged if it had 16
C21_KeyIs16 ==
    (dec.pc \in { "unwrap", "decrypt" } \/ "unwrap" \in dec.calls)
        => /\ Len(dec.recovered_k2) = 16
           /\ Len(RawKey) < 16
                => dec.recovered_k2 = [ k \in 1..16 |->
                                          IF k <= 16 - Len(RawKey) THEN 0
                                          ELSE RawKey[k - (16 - Len(RawKey))] ]
           /\ Len(RawKey) > 16
                => dec.recovered_k2 = SubSeq(RawKey, Len(RawKey) - 15, Len(RawKey))
           /\ Len(RawKey) = 16 => dec.recovered_k2 = RawKey

\* recover returned 18 bytes and the unwrap under their last 16 succeeded
C21_Witness ==
    /\ dec.pc = "decrypt"
    /\ "unwrap" \in dec.calls
    /\ Len(RawKey) = 18
    /\ dec.recovered_k2 # SubSeq(RawKey, 1, 16)

\* C22: a decrypt operation whose envelopes all parsed and agree, but are
\* fewer than the threshold they declare, ends with InsufficientShares and
\* never calls the sharer's recover; when they disagree as well, the operation
\* ends with InconsistentShares, the consistency check coming first
C22_BelowThreshold ==
    (/\ dec.pc # "idle"
     /\ AllParsed
     /\ Len(dec.parsed_shares) >= 2
     /\ Len(dec.parsed_shares) < dec.parsed_shares[1].threshold)
        => /\ dec.calls \cap Crypto = {}
           /\ dec.plaintext = <<>>
           /\ dec.pc = "finally"
                => IF \E i, j \in 1..Len(dec.parsed_shares) :
                         Disagree(dec.parsed_shares[i], dec.parsed_shares[j])
                   THEN /\ dec.outcome = "InconsistentShares"
                        /\ decrypt_output[Len(decrypt_output)].m
                             = "Selected shares do not match!"
                   ELSE /\ dec.outcome = "InsufficientShares"
                        /\ decrypt_output[Len(decrypt_output)].m = "Need at least {} shares"
                        /\ decrypt_output[Len(decrypt_output)].d = << 3 >>

\* two envelopes that agree and declare threshold 3 were parsed and the
\* operation stopped
C22_Witness ==
    /\ dec.pc = "finally"
    /\ Len(dec.parsed_shares) = 2
    /\ dec.parsed_shares[1].threshold = 3
    /\ ~Disagree(dec.parsed_shares[1], dec.parsed_shares[2])
    /\ dec.outcome = "InsufficientShares"

\* the image at path fails to extract or to decode
Unreadable(path) ==
    \/ extract_data_from_image(disk, path).exc # ""
    \/ _parse_share_payload(extract_data_from_image(disk, path).data).err # ""

\* the positions of the unreadable images among those of the operation
UnreadableAt == { k \in 1..Len(dec.image_paths) : Unreadable(dec.image_paths[k]) }

\* C23: a decrypt operation over images of which one fails to extract or to
\* decode reads no image after the first such one, parses only the envelopes
\* before it, never calls recover, unwrap or the password cipher, produces no
\* plaintext, and ends with "Decryption failed"
C23_FailClosed ==
    (dec.pc # "idle" /\ UnreadableAt # {})
        => LET first == CHOOSE k \in UnreadableAt : \A m \in UnreadableAt : k <= m
           IN  /\ dec.i <= first
               /\ Len(dec.parsed_shares) < first
               /\ dec.calls \cap Crypto = {}
               /\ dec.plaintext = <<>>
               /\ PasswordLines = {}
               /\ dec.pc = "finally"
                    => /\ dec.outcome = "Exception"
                       /\ dec.i = first
                       /\ Len(dec.parsed_shares) = first - 1
                       /\ decrypt_output[Len(decrypt_output)].m = "Decryption failed: {}"

\* three images were selected, the first two hold envelopes that agree and
\* meet their threshold of 2, and the operation ended at the third
C23_Witness ==
    /\ dec.pc = "finally"
    /\ Len(dec.image_paths) = 3
    /\ UnreadableAt = {3}
    /\ Len(dec.parsed_shares) = 2
    /\ dec.parsed_shares[1].threshold = 2
    /\ ~Disagree(dec.parsed_shares[1], dec.parsed_shares[2])
    /\ dec.outcome = "Exception"

\* C24, as the claim states it: a decrypt operation whose unwrap gave fewer
\* than 28 bytes never calls the password cipher's decrypt
C24_ShortBlob ==
    (dec.pc # "idle" /\ "unwrap" \in dec.calls /\ "decrypt_password" \in dec.calls)
        => Len(dec.binary_blob) >= 28

\* the stego images that the encrypt operation s of this run has written
ImagesOf(s) == { q \in AllPaths : origin[q] = s /\ disk[q] # NoPayload }

\* C25: the envelopes an encrypt operation has embedded all decode, carry
\* version 1, total 3 and threshold 2 and one and the same packaged cipher;
\* each carries, under index i, the i-th share of the operation's split, and
\* no two of them carry the same index
C25_EmbeddedEnvelopes ==
    \A s \in 1..n_encrypts :
        \E d \in Draws :
            LET shares == split_bytes_into_shares(K2Of(d), n_shares, k_threshold, d)
            IN  /\ \A q \in ImagesOf(s) :
                      LET meta == _parse_share_payload(disk[q])
                      IN  /\ meta.err = ""
                          /\ meta.version = 1
                          /\ meta.total = 3
                          /\ meta.threshold = 2
                          /\ meta.index \in 1..3
                          /\ meta.index \in sessions[s].embedded
                          /\ meta.share_bytes = shares[meta.index]
                /\ \A q1, q2 \in ImagesOf(s) :
                      /\ _parse_share_payload(disk[q1]).packaged_cipher
                           = _parse_share_payload(disk[q2]).packaged_cipher
                      /\ q1 # q2 => _parse_share_payload(disk[q1]).index
                                      # _parse_share_payload(disk[q2]).index
                /\ Cardinality(ImagesOf(s)) = Cardinality(sessions[s].embedded)

\* an encrypt operation has embedded all three shares and ended
C25_Witness ==
    /\ n_encrypts = 1
    /\ enc.pc = "idle"
    /\ after_queue = <<>>
    /\ Cardinality(ImagesOf(1)) = 3
    /\ sessions[1].embedded = 1..n_shares

Last(output) == output[Len(output)]

SkipLine == "No carrier selected for share {}. Skipping."

\* the shares of which the log says that processing began, in log order
ProcessedShares ==
    LET ks == LinesWith(encrypt_output, "Processing share {}/{}...")
    IN  { encrypt_output[k].d[1] : k \in ks }

\* C26: the step that handles a share for which no carrier was supplied logs
\* a warning naming the share, writes no image and moves on to the next
\* share; and an operation that ended having skipped shares, none of its
\* embeds having raised, went through all 3 shares, logged that all shares
\* were processed and reports success, however few were embedded
C26_SkipAndContinue ==
    /\ [][(/\ enc.pc = "loop"
           /\ Len(encrypt_output') > Len(encrypt_output)
           /\ Last(encrypt_output').m = SkipLine)
             => /\ Last(encrypt_output').t = "warning"
                /\ Last(encrypt_output').d = << enc.i >>
                /\ disk' = disk
                /\ sessions' = sessions
                /\ enc'.pc = "loop"
                /\ enc'.i = enc.i + 1]_vars
    /\ [](enc.pc = "loop" => ProcessedShares = 1..(enc.i - 1))
    /\ []((/\ Quiescent
           /\ n_encrypts > 0
           /\ n_decrypts = 0
           /\ LinesWith(encrypt_output, SkipLine) # {}
           /\ FailureLines(encrypt_output) = {})
             => /\ ProcessedShares = 1..n_shares
                /\ Cardinality(LinesWith(encrypt_output, SkipLine))
                     = n_shares - Cardinality(sessions[n_encrypts].embedded)
                /\ LinesWith(encrypt_output, "All shares processed successfully!") # {}
                /\ status = _update_status("Encryption completed", "success"))

\* shares 1 and 2 were skipped, share 3 was embedded, and the operation ended
C26_Witness ==
    /\ Quiescent
    /\ n_encrypts = 1
    /\ n_decrypts = 0
    /\ sessions[1].embedded = {3}
    /\ Cardinality(LinesWith(encrypt_output, SkipLine)) = 2
    /\ status = _update_status("Encryption completed", "success")

\* C27, as the claim states it: an encrypt operation that ended after an
\* embed raised has the failure as the last line of its log, has not logged
\* that all shares were processed, and reports an error as its terminal status
C27_EmbedFailureReported ==
    (/\ Quiescent
     /\ n_encrypts > 0
     /\ n_decrypts = 0
     /\ LinesWith(encrypt_output, "Share creation failed: {}") # {})
        => /\ Last(encrypt_output).m = "Share creation failed: {}"
           /\ LinesWith(encrypt_output, "All shares processed successfully!") = {}
           /\ status.type = "error"

\* C28: an encrypt or decrypt operation that is Running eventually is not,
\* with its start button enabled again; while its worker runs no completion
\* event of its class is queued, and never more than one is
C28_EventuallyLeaves ==
    /\ EncRunning ~> (~EncRunning /\ encrypt_btn = "normal")
    /\ DecRunning ~> (~DecRunning /\ decrypt_btn = "normal")
    /\ [](/\ Cardinality(QueuedCallbacks("_encryption_finished")) <= 1
          /\ Cardinality(QueuedCallbacks("_decryption_finished")) <= 1
          /\ enc.pc # "idle" => QueuedCallbacks("_encryption_finished") = {}
          /\ dec.pc # "idle" => QueuedCallbacks("_decryption_finished") = {})
    /\ [][/\ (enc.pc # "idle" /\ enc'.pc = "idle")
               => after_queue' = Append(after_queue, "_encryption_finished")
          /\ (dec.pc # "idle" /\ dec'.pc = "idle")
               => after_queue' = Append(after_queue, "_decryption_finished")]_vars

\* a decrypt worker has stopped on shares that do not match and its
\* completion event is queued
C28_Witness ==
    /\ dec.pc = "idle"
    /\ after_queue = << "_decryption_finished" >>
    /\ decrypt_btn = "disabled"
    /\ Last(decrypt_output).m = "Selected shares do not match!"


\* the images a decrypt operation has read so far, in the order it read them
ImagesRead ==
    LET lines == SelectSeq(decrypt_output, LAMBDA l : l.m = "Extracting from: {}")
    IN  Tuple([ k \in 1..Len(lines) |-> lines[k].d ])

\* C29: the worker of a decrypt operation is handed the selection as it is at
\* the start, no step taken while the operation runs changes the list the
\* worker holds, the images it reads are the first ones of that list in the
\* list's order (all of them once extraction is over), and the step that
\* completes the operation leaves the selection empty and the list box
\* showing no image, whatever was added or removed in between
C29_WorkerKeepsItsList ==
    /\ [][/\ (dec.pc = "idle" /\ dec'.pc # "idle") => dec'.image_paths = selected_images
          /\ (dec.pc # "idle" /\ dec'.pc # "idle") => dec'.image_paths = dec.image_paths
          /\ (DecRunning /\ ~DecRunning')
                => /\ selected_images' = <<>>
                   /\ image_listbox' = _update_image_list(<<>>)]_vars
    /\ [](dec.pc # "idle"
            => /\ Len(ImagesRead) <= Len(dec.image_paths)
               /\ ImagesRead = SubSeq(dec.image_paths, 1, Len(ImagesRead))
               /\ dec.pc \notin { "start", "extract", "finally" }
                    => ImagesRead = dec.image_paths)

\* the operation read the two images it was started with and is about to
\* end, while the selection was emptied and then filled with the third
\* image and one of the two
C29_Witness ==
    /\ dec.pc = "finally"
    /\ dec.outcome # "Exception"
    /\ dec.image_paths = << << 0, 1 >>, << 0, 2 >> >>
    /\ ImagesRead = dec.image_paths
    /\ selected_images = << << 0, 3 >>, << 0, 1 >> >>


\* the step in which the Tk main loop runs the callback at the head of the queue
Completes(callback) ==
    /\ after_queue # <<>>
    /\ Head(after_queue) = callback
    /\ after_queue' = Tail(after_queue)

\* C30: the step that completes an encrypt operation leaves the decrypt
\* button, the decrypt progress indicator, the decrypt master field and the
\* selected images as they are, and the step that completes a decrypt
\* operation leaves the encrypt button, the encrypt progress indicator and
\* the two encrypt password fields as they are, also while the other
\* operation is Running
C30_CompletionFrame ==
    [][/\ Completes("_encryption_finished")
            => UNCHANGED << decrypt_btn, decrypt_progress, decrypt_master_entry,
                            selected_images, image_listbox >>
       /\ Completes("_decryption_finished")
            => UNCHANGED << encrypt_btn, encrypt_progress, encrypt_password_entry,
                            encrypt_master_entry >>]_vars

\* an encrypt operation has completed while the worker of a decrypt operation
\* is running: the decrypt side still shows the running operation
C30_Witness ==
    /\ n_encrypts = 1
    /\ ~EncRunning
    /\ encrypt_btn = "normal"
    /\ dec.pc \notin { "idle", "start" }
    /\ decrypt_btn = "disabled"
    /\ decrypt_progress
    /\ decrypt_master_entry # <<>>
    /\ selected_images = dec.image_paths

====
